---- MODULE Spec2Model ----
(***************************************************************************)
(* EAN / EIC validation and generation engines of boldis/eic-validator.   *)
(*                                                                         *)
(* A Python str is modelled as a sequence of characters.  A character is   *)
(* a TLA+ string: the ASCII characters stand for themselves, and four      *)
(* named tokens stand for characters on which the str methods used by the  *)
(* code (isdigit, int, upper, strip, <=) do not act as on ASCII:           *)
(*   "TAB"   U+0009  whitespace: removed by strip(), not by replace(' ')   *)
(*   "SUP2"  U+00B2  superscript two: isdigit() is True, int() raises      *)
(*   "AR3"   U+0663  Arabic-Indic three: isdigit() is True, int() is 3     *)
(*   "SZ"    U+00DF  sharp s: upper() is the two characters "SS"           *)
(* Optional[T] is a sequence of length 0 (None) or 1.  A call that may     *)
(* raise returns Return(v) or Raise(exception class).                      *)
(***************************************************************************)
EXTENDS Integers, Sequences, FiniteSets, TLC

\* ------------------------------------------------------------ characters

DigitSeq == <<"0", "1", "2", "3", "4", "5", "6", "7", "8", "9">>

UpperSeq == <<"A", "B", "C", "D", "E", "F", "G", "H", "I", "J", "K", "L", "M",
              "N", "O", "P", "Q", "R", "S", "T", "U", "V", "W", "X", "Y", "Z">>

LowerSeq == <<"a", "b", "c", "d", "e", "f", "g", "h", "i", "j", "k", "l", "m",
              "n", "o", "p", "q", "r", "s", "t", "u", "v", "w", "x", "y", "z">>

Range(f) == {f[i] : i \in DOMAIN f}

AsciiDigit == Range(DigitSeq)
AsciiUpper == Range(UpperSeq)
AsciiLower == Range(LowerSeq)

IndexOf(seq, c) == CHOOSE i \in DOMAIN seq : seq[i] = c

\* ord(c): the code point, which decides the comparisons '0' <= c <= '9'.
Ord(c) ==
    IF c \in AsciiDigit THEN 47 + IndexOf(DigitSeq, c)
    ELSE IF c \in AsciiUpper THEN 64 + IndexOf(UpperSeq, c)
    ELSE IF c \in AsciiLower THEN 96 + IndexOf(LowerSeq, c)
    ELSE CASE c = "TAB"  -> 9
           [] c = " "    -> 32
           [] c = "!"    -> 33
           [] c = "-"    -> 45
           [] c = "/"    -> 47
           [] c = ":"    -> 58
           [] c = "@"    -> 64
           [] c = "["    -> 91
           [] c = "_"    -> 95
           [] c = "{"    -> 123
           [] c = "SUP2" -> 178
           [] c = "SZ"   -> 223
           [] c = "AR3"  -> 1635
           [] c = "CSZ"  -> 7838

\* chr(n) for the code points of the ASCII capitals and digits.
Chr(n) ==
    IF 48 <= n /\ n <= 57 THEN DigitSeq[n - 47] ELSE UpperSeq[n - 64]

\* str.isdigit() of one character: the Unicode digit property.
CharIsDigit(c) == c \in AsciiDigit \cup {"SUP2", "AR3"}

\* str.isspace() of one character (what strip() removes).
CharIsSpace(c) == c \in {" ", "TAB"}

\* What a call gives its caller: a value returned or an exception raised.
Return(v) == [exc |-> "none", val |-> <<v>>]
Raise(e) == [exc |-> e, val |-> <<>>]
Raised(r) == r.exc # "none"
Val(r) == r.val[1]

\* raise e(message): the exception with the message it carries.
RaiseMsg(e, message) == [exc |-> e, val |-> <<>>, msg |-> message]

\* issubclass(e, c) for the exception classes the code raises and catches.
IsSubclass(e, c) ==
    \/ e = c
    \/ c = "Exception"
    \/ c = "ValueError" /\ e \in {"InvalidEANTypeError", "InvalidBaseCodeError",
                                 "InvalidCountryCodeError",
                                 "InvalidEntityTypeError"}

\* Fault: the try block without its except clause.
ExceptNothing(r, class, v) == r

\* try: <r> except class: return v
Except(r, class, v) ==
    IF Raised(r) /\ IsSubclass(r.exc, class) THEN Return(v) ELSE r

\* The statements after a call: skipped when the call raised, else run with
\* the value it returned.
Then(r, Rest(_)) == IF Raised(r) THEN r ELSE Rest(Val(r))

\* int(c) of one character: Unicode decimal digits convert, others raise.
IntOfChar(c) ==
    IF c \in AsciiDigit THEN Return(IndexOf(DigitSeq, c) - 1)
    ELSE IF c = "AR3" THEN Return(3)
    ELSE Raise("ValueError")

\* str(n) for 0 <= n <= 9.
StrOfDigit(n) == DigitSeq[n + 1]

\* ------------------------------------------------------------ str methods

RECURSIVE Filter(_, _)
\* s.replace(c, ''): every occurrence of the character c removed.
Filter(s, c) ==
    IF s = <<>> THEN <<>>
    ELSE IF Head(s) = c THEN Filter(Tail(s), c)
    ELSE <<Head(s)>> \o Filter(Tail(s), c)

RECURSIVE LStrip(_)
LStrip(s) ==
    IF s # <<>> /\ CharIsSpace(Head(s)) THEN LStrip(Tail(s)) ELSE s

RECURSIVE RStrip(_)
RStrip(s) ==
    IF s # <<>> /\ CharIsSpace(s[Len(s)]) THEN RStrip(SubSeq(s, 1, Len(s) - 1))
    ELSE s

\* s.strip()
Strip(s) == RStrip(LStrip(s))

\* Fault: upper() leaving every character as it is.
UpperCharKeepsCase(c) == <<c>>

\* c.upper() of one character, as a str (the sharp s becomes two characters).
UpperChar(c) ==
    IF c \in AsciiLower THEN <<UpperSeq[IndexOf(LowerSeq, c)]>>
    ELSE IF c = "SZ" THEN <<"S", "S">>
    ELSE <<c>>

RECURSIVE StrUpper(_)
\* s.upper()
StrUpper(s) ==
    IF s = <<>> THEN <<>> ELSE UpperChar(Head(s)) \o StrUpper(Tail(s))

\* c.lower() of one character (the capital sharp s becomes the sharp s).
LowerChar(c) ==
    IF c \in AsciiUpper THEN LowerSeq[IndexOf(UpperSeq, c)]
    ELSE IF c = "CSZ" THEN "SZ"
    ELSE c

\* s.lower()
StrLower(s) == [i \in DOMAIN s |-> LowerChar(s[i])]

\* s.isdigit(): non-empty and every character has the digit property.
IsDigit(s) == s # <<>> /\ \A i \in DOMAIN s : CharIsDigit(s[i])

\* re.match(r'^[0-9A-Z]{n}$', s)
InClass09AZ(c) ==
    \/ (Ord("0") <= Ord(c) /\ Ord(c) <= Ord("9"))
    \/ (Ord("A") <= Ord(c) /\ Ord(c) <= Ord("Z"))

MatchAlnum(s, n) == Len(s) = n /\ \A i \in DOMAIN s : InClass09AZ(s[i])

\* An f-string or literal message: its literal text and its interpolated values.
Msg(text) == <<text>>
MsgWith(text, v) == <<text, v>>

None == <<>>
Some(x) == <<x>>

\* ------------------------------------------------------------ EAN validation

EAN_8_LENGTH == 8
EAN_13_LENGTH == 13
EAN_14_LENGTH == 14
VALID_EAN_LENGTHS == {EAN_8_LENGTH, EAN_13_LENGTH, EAN_14_LENGTH}

\* The literals "EAN-8", "EAN-13", "EAN-14".
EAN8 == <<"E", "A", "N", "-", "8">>
EAN13 == <<"E", "A", "N", "-", "1", "3">>
EAN14 == <<"E", "A", "N", "-", "1", "4">>

\* EANComponents, and its full_code property.
EANComponents(data_part, check_digit, format) ==
    [data_part |-> data_part, check_digit |-> check_digit, format |-> format]

EANFullCode(c) == c.data_part \o <<c.check_digit>>

\* digits = [int(d) for d in data_part]: raises at the first d int() rejects.
IntList(data_part) ==
    IF \E i \in DOMAIN data_part : Raised(IntOfChar(data_part[i]))
    THEN Raise("ValueError")
    ELSE Return([i \in DOMAIN data_part |-> Val(IntOfChar(data_part[i]))])

\* Fault: the weights 3 and 1 exchanged.
EANWeightSwapped(i) == IF i % 2 = 0 THEN 1 ELSE 3

\* weight = 3 if i % 2 == 0 else 1, for the index i of enumerate(reversed(..)).
EANWeight(i) == IF i % 2 = 0 THEN 3 ELSE 1

RECURSIVE EANTotal(_, _)
\* The loop "for i, digit in enumerate(reversed(digits))" from index i on.
EANTotal(digits, i) ==
    IF i >= Len(digits) THEN 0
    ELSE digits[Len(digits) - i] * EANWeight(i) + EANTotal(digits, i + 1)

_calculate_ean_check_digit(data_part) ==
    IF ~IsDigit(data_part) THEN Raise("ValueError")
    ELSE IF Len(data_part) \notin
            {EAN_8_LENGTH - 1, EAN_13_LENGTH - 1, EAN_14_LENGTH - 1}
    THEN Raise("ValueError")
    ELSE LET digits == IntList(data_part) IN
         IF Raised(digits) THEN digits
         ELSE LET total == EANTotal(Val(digits), 0)
                  check_digit == (10 - (total % 10)) % 10
              IN Return(StrOfDigit(check_digit))

calculate_ean_check_digit(ean_base) == _calculate_ean_check_digit(ean_base)

\* Fault: the code split as ean_code[1:] and ean_code[0].
validate_ean_check_digit_split_left(ean_code) ==
    IF ~IsDigit(ean_code) THEN Return(FALSE)
    ELSE IF Len(ean_code) \notin VALID_EAN_LENGTHS THEN Return(FALSE)
    ELSE LET data_part == SubSeq(ean_code, 2, Len(ean_code))
             provided_check_digit == ean_code[1]
             expected_check_digit == _calculate_ean_check_digit(data_part)
         IN Except(IF Raised(expected_check_digit) THEN expected_check_digit
                   ELSE Return(Val(expected_check_digit) = provided_check_digit),
                   "ValueError", FALSE)

validate_ean_check_digit(ean_code) ==
    IF ~IsDigit(ean_code) THEN Return(FALSE)
    ELSE IF Len(ean_code) \notin VALID_EAN_LENGTHS THEN Return(FALSE)
    ELSE LET data_part == SubSeq(ean_code, 1, Len(ean_code) - 1)
             provided_check_digit == ean_code[Len(ean_code)]
             expected_check_digit == _calculate_ean_check_digit(data_part)
         IN Except(IF Raised(expected_check_digit) THEN expected_check_digit
                   ELSE Return(Val(expected_check_digit) = provided_check_digit),
                   "ValueError", FALSE)

\* format_map[length]
EANFormatOfLength(length) ==
    CASE length = EAN_8_LENGTH -> EAN8
      [] length = EAN_13_LENGTH -> EAN13
      [] length = EAN_14_LENGTH -> EAN14

parse_ean_components(ean_code) ==
    IF ~IsDigit(ean_code) THEN Return(None)
    ELSE IF Len(ean_code) \notin VALID_EAN_LENGTHS THEN Return(None)
    ELSE Except(Return(Some(EANComponents(SubSeq(ean_code, 1, Len(ean_code) - 1),
                                          ean_code[Len(ean_code)],
                                          EANFormatOfLength(Len(ean_code))))),
                "Exception", None)

\* ean_code.replace('-', '').replace(' ', '').strip()
EANClean(ean_code) == Strip(Filter(Filter(ean_code, "-"), " "))

EANResult(is_valid, format, errors, components) ==
    [is_valid |-> is_valid, format |-> format, errors |-> errors,
     components |-> components]

\* Fault: format and components returned whether or not the code is valid.
EANFinalKeepsComponents(errors, components) ==
    EANResult(Len(errors) = 0, Some(components.format), errors,
              Some(components))

\* The last statements: is_valid = len(errors) == 0 and the result dict.
EANFinal(errors, components) ==
    LET is_valid == Len(errors) = 0
    IN EANResult(is_valid,
                 IF is_valid THEN Some(components.format) ELSE None,
                 errors,
                 IF is_valid THEN Some(components) ELSE None)

\* Fault: no return after the length error, so a second error is appended.
validate_ean_format_keeps_going(ean_code) ==
    LET ean_clean == EANClean(ean_code) IN
    IF ~IsDigit(ean_clean)
    THEN Return(EANResult(FALSE, None,
                          <<Msg("EAN must contain only numeric digits (0-9)")>>,
                          None))
    ELSE IF Len(ean_clean) \notin VALID_EAN_LENGTHS
    THEN Return(EANResult(FALSE, None,
                          <<MsgWith("Invalid EAN length: expected 8, 13, or 14 digits, got",
                                    Len(ean_clean)),
                            Msg("Failed to parse EAN components")>>, None))
    ELSE LET components == parse_ean_components(ean_clean) IN
         IF Raised(components) THEN components
         ELSE IF Val(components) = None
         THEN Return(EANResult(FALSE, None,
                               <<Msg("Failed to parse EAN components")>>, None))
         ELSE LET checked == validate_ean_check_digit(ean_clean) IN
              IF Raised(checked) THEN checked
              ELSE Return(EANFinal(IF ~Val(checked)
                                   THEN <<Msg("Invalid check digit")>> ELSE <<>>,
                                   Val(components)[1]))

validate_ean_format(ean_code) ==
    LET ean_clean == EANClean(ean_code) IN
    IF ~IsDigit(ean_clean)
    THEN Return(EANResult(FALSE, None,
                          <<Msg("EAN must contain only numeric digits (0-9)")>>,
                          None))
    ELSE IF Len(ean_clean) \notin VALID_EAN_LENGTHS
    THEN Return(EANResult(FALSE, None,
                          <<MsgWith("Invalid EAN length: expected 8, 13, or 14 digits, got",
                                    Len(ean_clean))>>, None))
    ELSE LET components == parse_ean_components(ean_clean) IN
         IF Raised(components) THEN components
         ELSE IF Val(components) = None
         THEN Return(EANResult(FALSE, None,
                               <<Msg("Failed to parse EAN components")>>, None))
         ELSE LET checked == validate_ean_check_digit(ean_clean) IN
              IF Raised(checked) THEN checked
              ELSE Return(EANFinal(IF ~Val(checked)
                                   THEN <<Msg("Invalid check digit")>> ELSE <<>>,
                                   Val(components)[1]))

RECURSIVE Join(_, _)
\* sep.join(parts)
Join(sep, parts) ==
    IF parts = <<>> THEN <<>>
    ELSE IF Len(parts) = 1 THEN parts[1]
    ELSE parts[1] \o sep \o Join(sep, Tail(parts))

\* The tuple (is_valid, format, error_message).
validate_ean(ean_code) ==
    LET result == validate_ean_format(ean_code) IN
    IF Raised(result) THEN result
    ELSE IF Val(result).is_valid
    THEN Return(<<TRUE, Val(result).format, None>>)
    ELSE Return(<<FALSE, None, Some(Join(<<"; ">>, Val(result).errors))>>)

is_valid_ean(ean_code) ==
    LET result == validate_ean_format(ean_code)
        ean_clean == EANClean(ean_code)
    IN IF Raised(result) THEN result
       ELSE Return([is_valid |-> Val(result).is_valid, ean_code |-> ean_clean,
                    format |-> Val(result).format, errors |-> Val(result).errors,
                    components |-> Val(result).components])

\* ------------------------------------------------------------ EAN generation

is_valid_ean_type(ean_type) == ean_type \in {EAN8, EAN13, EAN14}

\* expected_length_map[ean_type]
EANBaseLength(ean_type) ==
    CASE ean_type = EAN8 -> 7
      [] ean_type = EAN13 -> 12
      [] ean_type = EAN14 -> 13

\* Returns None or raises; every argument of the model is a str, so the
\* isinstance test never fails.
_validate_base_code(base_code, ean_type) ==
    IF ~is_valid_ean_type(ean_type) THEN Raise("InvalidEANTypeError")
    ELSE IF ~IsDigit(base_code) THEN Raise("InvalidBaseCodeError")
    ELSE IF Len(base_code) # EANBaseLength(ean_type)
    THEN Raise("InvalidBaseCodeError")
    ELSE Return(None)

\* Fault: the check digit put before the base code.
generate_ean_check_digit_first(base_code, ean_type0) ==
    LET ean_type == StrUpper(ean_type0)
        checked == _validate_base_code(base_code, ean_type)
    IN IF Raised(checked) THEN checked
       ELSE LET check_digit == calculate_ean_check_digit(base_code) IN
            IF Raised(check_digit) THEN check_digit
            ELSE Return(<<Val(check_digit)>> \o base_code)

\* Fault: the type compared as given, without upper().
generate_ean_type_as_given(base_code, ean_type) ==
    LET checked == _validate_base_code(base_code, ean_type)
    IN IF Raised(checked) THEN checked
       ELSE LET check_digit == calculate_ean_check_digit(base_code) IN
            IF Raised(check_digit) THEN check_digit
            ELSE Return(base_code \o <<Val(check_digit)>>)

generate_ean(base_code, ean_type0) ==
    LET ean_type == StrUpper(ean_type0)
        checked == _validate_base_code(base_code, ean_type)
    IN IF Raised(checked) THEN checked
       ELSE LET check_digit == calculate_ean_check_digit(base_code) IN
            IF Raised(check_digit) THEN check_digit
            ELSE Return(base_code \o <<Val(check_digit)>>)

\* ------------------------------------------------------------ EIC validation

EIC_LENGTH == 16
EIC_BASE_LENGTH == 15

\* EICComponents, and its base and full_code properties.
EICComponents(office_id, entity_type, individual_id, check_digit) ==
    [office_id |-> office_id, entity_type |-> entity_type,
     individual_id |-> individual_id, check_digit |-> check_digit]

EICBase(c) == c.office_id \o <<c.entity_type>> \o c.individual_id

EICFullCode(c) == EICBase(c) \o <<c.check_digit>>

\* Fault: the letters valued from 11.
_char_to_value_letters_from_11(char) ==
    IF Ord("0") <= Ord(char) /\ Ord(char) <= Ord("9")
    THEN IntOfChar(char)
    ELSE IF Ord("A") <= Ord(char) /\ Ord(char) <= Ord("Z")
    THEN Return(Ord(char) - Ord("A") + 11)
    ELSE Raise("ValueError")

_char_to_value(char) ==
    IF Ord("0") <= Ord(char) /\ Ord(char) <= Ord("9")
    THEN IntOfChar(char)
    ELSE IF Ord("A") <= Ord(char) /\ Ord(char) <= Ord("Z")
    THEN Return(Ord(char) - Ord("A") + 10)
    ELSE Raise("ValueError")

_value_to_char(value) ==
    IF 0 <= value /\ value <= 9 THEN Return(StrOfDigit(value))
    ELSE IF 10 <= value /\ value <= 35 THEN Return(Chr(Ord("A") + value - 10))
    ELSE Raise("ValueError")

RECURSIVE EICFoldMod36(_, _)
\* Fault: the remainder reduced modulo 36.
EICFoldMod36(chars, remainder) ==
    IF chars = <<>> THEN Return(remainder)
    ELSE LET value == _char_to_value(Head(chars)) IN
         IF Raised(value)
         THEN RaiseMsg("ValueError", "Invalid character in EIC base")
         ELSE EICFoldMod36(Tail(chars), (remainder * 36 + Val(value)) % 36)

RECURSIVE EICFold(_, _)
\* The loop "for char in eic_base" started with this remainder: the final
\* remainder, or the ValueError of the first character without a value.
EICFold(chars, remainder) ==
    IF chars = <<>> THEN Return(remainder)
    ELSE LET value == _char_to_value(Head(chars)) IN
         IF Raised(value)
         THEN RaiseMsg("ValueError", "Invalid character in EIC base")
         ELSE EICFold(Tail(chars), (remainder * 36 + Val(value)) % 37)

\* Fault: the value 36 not replaced by 0.
calculate_eic_check_digit_no_remap(eic_base0) ==
    IF Len(eic_base0) # EIC_BASE_LENGTH
    THEN RaiseMsg("ValueError", "EIC base must be exactly 15 characters long")
    ELSE LET eic_base == StrUpper(eic_base0) IN
         Then(EICFold(eic_base, 0),
              LAMBDA remainder : _value_to_char((37 - remainder) % 37))

\* Fault: the base used as given, without upper().
calculate_eic_check_digit_as_given(eic_base) ==
    IF Len(eic_base) # EIC_BASE_LENGTH
    THEN RaiseMsg("ValueError", "EIC base must be exactly 15 characters long")
    ELSE Then(EICFold(eic_base, 0),
              LAMBDA remainder :
                  LET check_digit_value == (37 - remainder) % 37 IN
                  _value_to_char(IF check_digit_value = 36 THEN 0
                                 ELSE check_digit_value))

calculate_eic_check_digit(eic_base0) ==
    IF Len(eic_base0) # EIC_BASE_LENGTH
    THEN RaiseMsg("ValueError", "EIC base must be exactly 15 characters long")
    ELSE LET eic_base == StrUpper(eic_base0) IN
         Then(EICFold(eic_base, 0),
              LAMBDA remainder :
                  LET check_digit_value == (37 - remainder) % 37 IN
                  _value_to_char(IF check_digit_value = 36 THEN 0
                                 ELSE check_digit_value))

validate_eic_check_digit(eic_code0) ==
    IF Len(eic_code0) # EIC_LENGTH THEN Return(FALSE)
    ELSE LET eic_code == StrUpper(eic_code0)
             eic_data_part == SubSeq(eic_code, 1, 15)
             provided_check_digit == eic_code[16]
         IN Except(Then(calculate_eic_check_digit(eic_data_part),
                        LAMBDA expected_check_digit :
                            Return(expected_check_digit = provided_check_digit)),
                   "ValueError", FALSE)

\* Fault: the individual identifier cut one character late.
parse_eic_components_shifted(eic_code0) ==
    IF Len(eic_code0) # EIC_LENGTH THEN Return(None)
    ELSE LET eic_code == StrUpper(eic_code0) IN
         Except(Return(Some(EICComponents(SubSeq(eic_code, 1, 2), eic_code[3],
                                          SubSeq(eic_code, 5, 16), eic_code[16]))),
                "Exception", None)

parse_eic_components(eic_code0) ==
    IF Len(eic_code0) # EIC_LENGTH THEN Return(None)
    ELSE LET eic_code == StrUpper(eic_code0) IN
         Except(Return(Some(EICComponents(SubSeq(eic_code, 1, 2), eic_code[3],
                                          SubSeq(eic_code, 4, 15), eic_code[16]))),
                "Exception", None)

\* eic_code.replace('-', '').replace(' ', '').upper()
EICClean(eic_code) == StrUpper(Filter(Filter(eic_code, "-"), " "))

EICResult(is_valid, errors, components) ==
    [is_valid |-> is_valid, errors |-> errors, components |-> components]

\* The four appends after a successful parse, in the order of the code; an
\* exception of validate_eic_check_digit leaves the function.
EICFieldErrors(components, eic_clean) ==
    Then(validate_eic_check_digit(eic_clean),
         LAMBDA checked : Return(
        (IF ~MatchAlnum(components.office_id, 2)
         THEN <<MsgWith("Invalid office identifier format:", components.office_id)>>
         ELSE <<>>)
        \o (IF ~MatchAlnum(<<components.entity_type>>, 1)
            THEN <<MsgWith("Invalid entity type format:", components.entity_type)>>
            ELSE <<>>)
        \o (IF ~MatchAlnum(components.individual_id, 12)
            THEN <<MsgWith("Invalid individual identifier format:",
                           components.individual_id)>>
            ELSE <<>>)
        \o (IF ~checked
            THEN <<Msg("Invalid check digit")>>
            ELSE <<>>)))

\* The last statements: is_valid = len(errors) == 0 and the result dict.
EICFinal(errors, components) ==
    LET is_valid == Len(errors) = 0
    IN EICResult(is_valid, errors, IF is_valid THEN Some(components) ELSE None)

\* Fault: the character set checked before the length.
validate_eic_format_charset_first(eic_code) ==
    LET eic_clean == EICClean(eic_code) IN
    IF ~(\A i \in DOMAIN eic_clean : InClass09AZ(eic_clean[i]))
    THEN Return(EICResult(FALSE,
                          <<Msg("EIC contains invalid characters. Only 0-9 and A-Z are allowed")>>,
                          None))
    ELSE IF Len(eic_clean) # EIC_LENGTH
    THEN Return(EICResult(FALSE,
                          <<MsgWith("Invalid EIC length: expected 16 characters, got",
                                    Len(eic_clean))>>, None))
    ELSE Then(parse_eic_components(eic_clean), LAMBDA components :
         IF components = None
         THEN Return(EICResult(FALSE, <<Msg("Failed to parse EIC components")>>,
                               None))
         ELSE Then(EICFieldErrors(components[1], eic_clean), LAMBDA errors :
              Return(EICFinal(errors, components[1]))))

\* Fault: no return after the character-set error.
validate_eic_format_keeps_going(eic_code) ==
    LET eic_clean == EICClean(eic_code) IN
    IF Len(eic_clean) # EIC_LENGTH
    THEN Return(EICResult(FALSE,
                          <<MsgWith("Invalid EIC length: expected 16 characters, got",
                                    Len(eic_clean))>>, None))
    ELSE Then(parse_eic_components(eic_clean), LAMBDA components :
         IF components = None
         THEN Return(EICResult(FALSE, <<Msg("Failed to parse EIC components")>>,
                               None))
         ELSE Then(EICFieldErrors(components[1], eic_clean), LAMBDA errors :
              Return(EICFinal(
                  (IF ~MatchAlnum(eic_clean, 16)
                   THEN <<Msg("EIC contains invalid characters. Only 0-9 and A-Z are allowed")>>
                   ELSE <<>>) \o errors,
                  components[1]))))

validate_eic_format(eic_code) ==
    LET eic_clean == EICClean(eic_code) IN
    IF Len(eic_clean) # EIC_LENGTH
    THEN Return(EICResult(FALSE,
                          <<MsgWith("Invalid EIC length: expected 16 characters, got",
                                    Len(eic_clean))>>, None))
    ELSE IF ~MatchAlnum(eic_clean, 16)
    THEN Return(EICResult(FALSE,
                          <<Msg("EIC contains invalid characters. Only 0-9 and A-Z are allowed")>>,
                          None))
    ELSE Then(parse_eic_components(eic_clean), LAMBDA components :
         IF components = None
         THEN Return(EICResult(FALSE, <<Msg("Failed to parse EIC components")>>,
                               None))
         ELSE Then(EICFieldErrors(components[1], eic_clean), LAMBDA errors :
              Return(EICFinal(errors, components[1]))))

is_valid_eic(eic_code) ==
    LET eic_clean == EICClean(eic_code) IN
    Then(validate_eic_format(eic_code), LAMBDA result :
         Return([is_valid |-> result.is_valid,
                 eic_code |-> IF Len(eic_clean) = EIC_LENGTH THEN eic_clean
                              ELSE eic_code,
                 errors |-> result.errors,
                 components |-> result.components]))

\* ------------------------------------------------------------ state

VARIABLES
    VALID_COUNTRY_CODES,  \* the office-code registry (a module-level set)
    VALID_ENTITY_TYPES,   \* the entity-type registry (a module-level set)
    pc,                   \* "idle", "loop", "returned", "checked", "substituted"
    op,                   \* the function the caller called
    args,                 \* its arguments
    out,                  \* Some(what it returned or raised)
    out2,                 \* Some(what validating its result returned)
    acc,                  \* the set eans / eics of a bulk call
    drawn,                \* Some(the code the last iteration drew)
    collided              \* history: a draw of this call was in the set already

vars == <<VALID_COUNTRY_CODES, VALID_ENTITY_TYPES, pc, op, args, out, out2,
          acc, drawn, collided>>

registries == <<VALID_COUNTRY_CODES, VALID_ENTITY_TYPES>>

\* ------------------------------------------------------------ random source

\* secrets.choice(charset) returns any character of charset.  The model
\* bounds it: in one call of a generator every choice but the last returns
\* the first character of charset, and the last returns the k-th, for a k in
\* 1..DrawChars.  Choices(charset, n, k) is the string of n choices.
DrawChars == 3

Choices(charset, n, k) ==
    [i \in 1..n |-> IF i < n THEN charset[1] ELSE charset[k]]

\* ------------------------------------------------------------ EAN generation

\* Fault: every call gives the same base code.
_generate_random_base_fixed(ean_type, k) ==
    IF ~is_valid_ean_type(ean_type) THEN Raise("InvalidEANTypeError")
    ELSE Return(Choices(DigitSeq, EANBaseLength(ean_type), 1))

_generate_random_base(ean_type, k) ==
    IF ~is_valid_ean_type(ean_type) THEN Raise("InvalidEANTypeError")
    ELSE Return(Choices(DigitSeq, EANBaseLength(ean_type), k))

generate_random_ean(ean_type0, k) ==
    LET ean_type == StrUpper(ean_type0)
        base_code == _generate_random_base(ean_type, k)
    IN IF Raised(base_code) THEN base_code
       ELSE generate_ean(Val(base_code), ean_type)

\* ------------------------------------------------------------ EIC generation

CountryCodes ==
    {<<DigitSeq[a + 1], DigitSeq[b + 1]>> : a \in 1..5, b \in 0..9}
    \cup {<<x, DigitSeq[b + 1]>> : x \in {"X", "Y", "Z"}, b \in 1..9}

EntityTypes ==
    {"T", "Y", "A", "V", "W", "Z", "X", "B", "C", "D", "E", "F", "G", "H", "L",
     "M", "P", "S"} \cup AsciiDigit

\* Every argument of the model is a str, so the isinstance tests never fail.
is_valid_country_code(code) ==
    IF Len(code) # 2 THEN FALSE ELSE StrUpper(code) \in VALID_COUNTRY_CODES

\* The registry holds single characters; a str of another length is no member.
is_valid_entity_type(entity_type) ==
    IF Len(entity_type) # 1 THEN FALSE
    ELSE \E t \in VALID_ENTITY_TYPES : StrUpper(entity_type) = <<t>>

\* Fault: the entity type checked before the country code.
_validate_eic_generation_params_entity_first(country_code, entity_type) ==
    IF ~is_valid_entity_type(entity_type)
    THEN Raise("InvalidEntityTypeError")
    ELSE IF ~is_valid_country_code(country_code)
    THEN Raise("InvalidCountryCodeError")
    ELSE Return(None)

_validate_eic_generation_params(country_code, entity_type) ==
    IF ~is_valid_country_code(country_code)
    THEN Raise("InvalidCountryCodeError")
    ELSE IF ~is_valid_entity_type(entity_type)
    THEN Raise("InvalidEntityTypeError")
    ELSE Return(None)

\* charset = string.ascii_uppercase + string.digits, 12 choices
_generate_base_identifier(k) == Choices(UpperSeq \o DigitSeq, 12, k)

\* Fault: the prefix assembled from the arguments as given.
generate_eic_prefix_as_given(country_code0, entity_type0, k) ==
    LET country_code == StrUpper(country_code0)
        entity_type == StrUpper(entity_type0)
        checked == _validate_eic_generation_params(country_code, entity_type)
    IN IF Raised(checked) THEN checked
       ELSE LET base_identifier == _generate_base_identifier(k)
                eic_prefix == country_code0 \o entity_type0 \o base_identifier
                check_digit == calculate_eic_check_digit(eic_prefix)
            IN IF Raised(check_digit) THEN check_digit
               ELSE Return(eic_prefix \o <<Val(check_digit)>>)

generate_eic(country_code0, entity_type0, k) ==
    LET country_code == StrUpper(country_code0)
        entity_type == StrUpper(entity_type0)
        checked == _validate_eic_generation_params(country_code, entity_type)
    IN IF Raised(checked) THEN checked
       ELSE LET base_identifier == _generate_base_identifier(k)
                eic_prefix == country_code \o entity_type \o base_identifier
                check_digit == calculate_eic_check_digit(eic_prefix)
            IN IF Raised(check_digit) THEN check_digit
               ELSE Return(eic_prefix \o <<Val(check_digit)>>)

\* ------------------------------------------------------------ inputs

\* An input of a call is one of the strings below (the codes the test suite
\* and the docstrings use, of every length class the code distinguishes)
\* with one window of at most MaxWindow characters replaced by at most
\* MaxWindow characters: overwritten, inserted or deleted, at any position.
MaxWindow == 1

\* The string s with the k characters after its first i replaced by w.
EditOf(s, i, k, w) == SubSeq(s, 1, i) \o w \o SubSeq(s, i + k + 1, Len(s))

\* The literal codes of the tests and docstrings.
T_EAN7 == <<"1", "2", "3", "4", "5", "6", "7">>
T_EAN7B == <<"9", "6", "3", "8", "5", "0", "7">>
T_EAN8 == <<"1", "2", "3", "4", "5", "6", "7", "0">>
T_EAN9 == <<"1", "2", "3", "4", "5", "6", "7", "8", "9">>
T_EAN12 == <<"4", "0", "0", "6", "3", "8", "1", "3", "3", "3", "9", "3">>
T_EAN12NINES == <<"9", "9", "9", "9", "9", "9", "9", "9", "9", "9", "9", "9">>
T_EAN13 == <<"4", "0", "0", "6", "3", "8", "1", "3", "3", "3", "9", "3", "1">>
T_EAN13B == <<"0", "4", "0", "0", "6", "3", "8", "1", "3", "3", "3", "9", "3">>
T_EAN13C == <<"1", "2", "3", "4", "5", "6", "7", "8", "9", "0", "1", "2", "3">>
T_EAN14 == <<"0", "4", "0", "0", "6", "3", "8", "1", "3", "3", "3", "9", "3", "1">>
T_EAN14API == <<"0", "4", "0", "0", "6", "3", "8", "1", "3", "3", "3", "9", "3", "8">>
T_EAN15 == <<"1", "2", "3", "4", "5", "6", "7", "8", "9", "0", "1", "2", "3", "4", "5">>
T_EAN8SEP == <<" ", "1", "2", "3", "4", "-", "5", "6", "7", "0", " ">>
T_EIC16 == <<"2", "7", "X", "G", "O", "E", "P", "S", "0", "0", "0", "0", "0", "0", "1", "H">>
T_EIC16ZERO == <<"0", "0", "0", "0", "0", "0", "0", "0", "0", "0", "0", "0", "0", "0", "0", "0">>
T_EIC16SEP == <<"2", "7", "X", "-", "G", "O", "E", "P", "-", "S", "0", "0", "0", "-", "0", "0", "0", "1", "h">>
T_EIC15 == <<"2", "7", "X", "G", "O", "E", "P", "S", "0", "0", "0", "0", "0", "0", "1">>
T_EIC8 == <<"T", "O", "O", "S", "H", "O", "R", "T">>
T_EIC21 == <<"T", "H", "I", "S", "I", "S", "T", "O", "O", "L", "O", "N", "G", "F", "O", "R", "A", "N", "E", "I", "C">>
T_EIC15ZERO == <<"0", "0", "0", "0", "0", "0", "0", "0", "0", "0", "0", "0", "0", "0", "0">>
T_EIC15ONE == <<"0", "0", "0", "0", "0", "0", "0", "0", "0", "0", "0", "0", "0", "0", "1">>
T_EIC15A == <<"A", "B", "C", "D", "E", "F", "G", "H", "I", "J", "K", "L", "M", "N", "O">>
T_EIC15P == <<"P", "Q", "R", "S", "T", "U", "V", "W", "X", "Y", "Z", "0", "1", "2", "3">>
T_EIC15N == <<"4", "5", "6", "7", "8", "9", "A", "B", "C", "D", "E", "F", "G", "H", "I">>

EANEditChars == {"0", "3", "9", "-", " ", "TAB", "SUP2", "AR3", "A"}

EANCodeTemplates ==
    {<<>>,
     T_EAN7,
     T_EAN8,
     T_EAN9,
     T_EAN12,
     T_EAN13,
     T_EAN14,
     T_EAN14API,
     T_EAN15,
     T_EAN8SEP}

EANBaseTemplates ==
    {T_EAN7,
     T_EAN7B,
     T_EAN12,
     T_EAN12NINES,
     T_EAN13B,
     T_EAN13C}

EANTypeInputs ==
    {EAN8, EAN13, EAN14, <<"e", "a", "n", "-", "8">>,
     <<"E", "a", "n", "-", "1", "3">>, <<"e", "A", "N", "-", "1", "4">>,
     <<"E", "A", "N", "-", "1", "2">>}

EICEditChars == {"0", "1", "A", "Z", "h", "-", " ", "!", "SZ", "CSZ"}

EICCodeTemplates ==
    {<<>>,
     T_EIC16,
     T_EIC16ZERO,
     T_EIC16SEP,
     T_EIC15,
     T_EIC8,
     T_EIC21}

EICBaseTemplates ==
    {T_EIC15,
     T_EIC15ZERO,
     T_EIC15ONE,
     T_EIC15A,
     T_EIC15P,
     T_EIC15N,
     T_EIC8}

\* Country codes and entity types of the generation tests: registry members
\* in both letter cases, non-members, and strings of other lengths.
CountryCodeInputs ==
    {<<"2", "7">>, <<"x", "1">>, <<"1", "0">>, <<"9", "9">>, <<"2">>,
     <<"2", "7", "1">>}

EntityTypeInputs == {<<"X">>, <<"z">>, <<"1">>, <<"Q">>, <<"X", "X">>, <<>>}

\* The single characters given to the codec: the alphabet, the lowercase
\* letters, the neighbours of '0', '9', 'A', 'Z', 'a', 'z' and the
\* characters outside ASCII.
CodecChars ==
    AsciiDigit \cup AsciiUpper \cup AsciiLower
    \cup {"TAB", " ", "!", "-", "/", ":", "@", "[", "_", "{", "SUP2", "SZ", "AR3"}

\* The integers given to the codec reach this far below 0 and above 35.
ValueMargin == 2

CodecValues == (0 - ValueMargin)..(35 + ValueMargin)

\* ------------------------------------------------------------ calls

Init ==
    /\ VALID_COUNTRY_CODES = CountryCodes
    /\ VALID_ENTITY_TYPES = EntityTypes
    /\ pc = "idle"
    /\ op = ""
    /\ args = <<>>
    /\ out = None
    /\ out2 = None
    /\ acc = {}
    /\ drawn = None
    /\ collided = FALSE

\* A call of a function without a loop: it returns (or raises) in one step.
Call(name, arguments, result) ==
    /\ pc = "idle"
    /\ pc' = "returned"
    /\ op' = name
    /\ args' = arguments
    /\ out' = Some(result)
    /\ UNCHANGED <<registries, out2, acc, drawn, collided>>

\* The caller validates what the call returned.
Check(name, result) ==
    /\ pc = "returned"
    /\ op = name
    /\ pc' = "checked"
    /\ out2' = Some(result)
    /\ UNCHANGED <<registries, op, args, out, acc, drawn, collided>>

CallValidateEANFormat(code) ==
    Call("validate_ean_format", <<code>>, validate_ean_format(code))

CallValidateEAN(code) == Call("validate_ean", <<code>>, validate_ean(code))

CallIsValidEAN(code) == Call("is_valid_ean", <<code>>, is_valid_ean(code))

CallCalculateEANCheckDigit(base) ==
    Call("calculate_ean_check_digit", <<base>>, calculate_ean_check_digit(base))

CallGenerateEAN(base, type) ==
    Call("generate_ean", <<base, type>>, generate_ean(base, type))

CallValidateEANCheckDigit(code) ==
    Call("validate_ean_check_digit", <<code>>, validate_ean_check_digit(code))

CallParseEANComponents(code) ==
    Call("parse_ean_components", <<code>>, parse_ean_components(code))

\* validate_ean(d + calculate_ean_check_digit(d))
CheckComposedEAN ==
    /\ out # None /\ op = "calculate_ean_check_digit" /\ ~Raised(out[1])
    /\ Check("calculate_ean_check_digit",
             validate_ean(args[1] \o <<Val(out[1])>>))

\* validate_ean(generate_ean(base, type))
CheckGeneratedEAN ==
    /\ out # None /\ op = "generate_ean" /\ ~Raised(out[1])
    /\ Check("generate_ean", validate_ean(Val(out[1])))

CallValidateEICFormat(code) ==
    Call("validate_eic_format", <<code>>, validate_eic_format(code))

CallIsValidEIC(code) == Call("is_valid_eic", <<code>>, is_valid_eic(code))

CallCalculateEICCheckDigit(base) ==
    Call("calculate_eic_check_digit", <<base>>, calculate_eic_check_digit(base))

CallValidateEICCheckDigit(code) ==
    Call("validate_eic_check_digit", <<code>>, validate_eic_check_digit(code))

CallParseEICComponents(code) ==
    Call("parse_eic_components", <<code>>, parse_eic_components(code))

\* validate_eic_format(b + calculate_eic_check_digit(b))
CheckComposedEIC ==
    /\ out # None /\ op = "calculate_eic_check_digit" /\ ~Raised(out[1])
    /\ Check("calculate_eic_check_digit",
             validate_eic_format(args[1] \o <<Val(out[1])>>))

\* The inputs of the calls: every variant of every template.
ForVariants(templates, chars, A(_)) ==
    \E s \in templates : \E i \in 0..Len(s) : \E k \in 0..MaxWindow :
        \E n \in 0..MaxWindow : \E w \in [1..n -> chars] :
            A(EditOf(s, i, k, w))

EANCodeCalls(code) ==
    \/ CallValidateEANFormat(code)
    \/ CallValidateEAN(code)
    \/ CallIsValidEAN(code)
    \/ CallValidateEANCheckDigit(code)
    \/ CallParseEANComponents(code)

EANBaseCalls(base) ==
    \/ CallCalculateEANCheckDigit(base)
    \/ \E type \in EANTypeInputs : CallGenerateEAN(base, type)

EICCodeCalls(code) ==
    \/ CallValidateEICFormat(code)
    \/ CallIsValidEIC(code)
    \/ CallValidateEICCheckDigit(code)
    \/ CallParseEICComponents(code)

EICBaseCalls(base) == CallCalculateEICCheckDigit(base)

ValidateEANCode ==
    pc = "idle" /\ ForVariants(EANCodeTemplates, EANEditChars, EANCodeCalls)

UseEANBase ==
    pc = "idle" /\ ForVariants(EANBaseTemplates, EANEditChars, EANBaseCalls)

ValidateEICCode ==
    pc = "idle" /\ ForVariants(EICCodeTemplates, EICEditChars, EICCodeCalls)

UseEICBase ==
    pc = "idle" /\ ForVariants(EICBaseTemplates, EICEditChars, EICBaseCalls)

\* generate_eic(country_code, entity_type) with the k-th outcome of the
\* random source
CallGenerateEIC(country_code, entity_type, k) ==
    Call("generate_eic", <<country_code, entity_type>>,
         generate_eic(country_code, entity_type, k))

GenerateEIC ==
    /\ pc = "idle"
    /\ \E cc \in CountryCodeInputs, et \in EntityTypeInputs, k \in 1..DrawChars :
           CallGenerateEIC(cc, et, k)

\* is_valid_eic(generate_eic(country_code, entity_type))
CheckGeneratedEIC ==
    /\ out # None /\ op = "generate_eic" /\ ~Raised(out[1])
    /\ Check("generate_eic", is_valid_eic(Val(out[1])))

CallCharToValue(char) == Call("_char_to_value", <<char>>, _char_to_value(char))

CallValueToChar(value) ==
    Call("_value_to_char", <<value>>, _value_to_char(value))

UseCodec ==
    /\ pc = "idle"
    /\ \/ \E char \in CodecChars : CallCharToValue(char)
       \/ \E value \in CodecValues : CallValueToChar(value)

\* _value_to_char(_char_to_value(c))
CheckCharOfValue ==
    /\ out # None /\ op = "_char_to_value" /\ ~Raised(out[1])
    /\ Check("_char_to_value", _value_to_char(Val(out[1])))

\* _char_to_value(_value_to_char(v))
CheckValueOfChar ==
    /\ out # None /\ op = "_value_to_char" /\ ~Raised(out[1])
    /\ Check("_value_to_char", _char_to_value(Val(out[1])))

\* The separators a caller writes into a code for display.
Separators == {"-", " "}

\* Where a separator is written: before the code and in the middle of it.
SeparatorPositions(code) == {0, Len(code) \div 2}

\* The code with one separator written into it.
Separated(code) ==
    {EditOf(code, i, 0, <<c>>) : i \in SeparatorPositions(code), c \in Separators}

\* The code with the case of its letters changed.
Recased(code) == {StrLower(code), StrUpper(code)} \ {code}

\* The caller validates the same code written another way: the arguments of
\* the two calls and their results are kept.
ValidateAgain(name, code, result) ==
    /\ pc = "returned"
    /\ op = name
    /\ pc' = "checked"
    /\ args' = <<args[1], code>>
    /\ out2' = Some(result)
    /\ UNCHANGED <<registries, op, out, acc, drawn, collided>>

\* validate_ean(x) for the code of the call with a separator written into it
CheckSeparatedEAN ==
    /\ pc = "returned" /\ op = "validate_ean"
    /\ \E x \in Separated(args[1]) :
           ValidateAgain("validate_ean", x, validate_ean(x))

\* validate_eic_format(x) for the code of the call with a separator written
\* into it or in another letter case
CheckRewrittenEIC ==
    /\ pc = "returned" /\ op = "validate_eic_format"
    /\ \E x \in Separated(args[1]) \cup Recased(args[1]) :
           ValidateAgain("validate_eic_format", x, validate_eic_format(x))

\* The code with the character at position i replaced by c.
Substitute(code, i, c) == [code EXCEPT ![i] = c]

\* The codes a transcription error at one of these positions makes of the
\* code: one character replaced by a different character of chars.
Substituted(code, positions, chars) ==
    {Substitute(code, i, c) : i \in positions, c \in chars} \ {code}

\* The caller validates the code with one character replaced: the arguments
\* of the two calls and their results are kept.
ValidateSubstituted(name, code, result) ==
    /\ pc = "returned"
    /\ op = name
    /\ pc' = "substituted"
    /\ args' = <<args[1], code>>
    /\ out2' = Some(result)
    /\ UNCHANGED <<registries, op, out, acc, drawn, collided>>

\* validate_ean(x) for a code of 8, 13 or 14 characters reported valid, with
\* one of its digits replaced by another
CheckSubstitutedEAN ==
    /\ pc = "returned" /\ op = "validate_ean"
    /\ ~Raised(out[1]) /\ Val(out[1])[1] = TRUE
    /\ Len(args[1]) \in VALID_EAN_LENGTHS
    /\ \E x \in Substituted(args[1], DOMAIN args[1], AsciiDigit) :
           ValidateSubstituted("validate_ean", x, validate_ean(x))

\* validate_eic_format(x) for a code of 16 characters of [0-9A-Z] reported
\* valid, with one of its first 15 characters replaced by another of [0-9A-Z]
CheckSubstitutedEIC ==
    /\ pc = "returned" /\ op = "validate_eic_format"
    /\ ~Raised(out[1]) /\ Val(out[1]).is_valid
    /\ Len(args[1]) = EIC_LENGTH
    /\ \A i \in DOMAIN args[1] : args[1][i] \in AsciiDigit \cup AsciiUpper
    /\ \E x \in Substituted(args[1], 1..EIC_BASE_LENGTH, AsciiDigit \cup AsciiUpper) :
           ValidateSubstituted("validate_eic_format", x, validate_eic_format(x))

Next ==
    \/ ValidateEANCode
    \/ UseEANBase
    \/ ValidateEICCode
    \/ UseEICBase
    \/ GenerateEIC
    \/ UseCodec
    \/ CheckCharOfValue
    \/ CheckValueOfChar
    \/ CheckComposedEAN
    \/ CheckGeneratedEAN
    \/ CheckComposedEIC
    \/ CheckGeneratedEIC
    \/ CheckSeparatedEAN
    \/ CheckRewrittenEIC
    \/ CheckSubstitutedEAN
    \/ CheckSubstitutedEIC

Spec == Init /\ [][Next]_vars

\* ------------------------------------------------------------ bulk calls

\* The largest count a caller asks for.
MaxCount == 4

CountInputs == -1..MaxCount

\* list(s): the elements of the set s, each once, in an order the code does
\* not decide.
Lists(s) == {l \in [1..Cardinality(s) -> s] : Range(l) = s}

\* Fault: the loop test written len(codes) <= count.
LoopContinuesAtCount(codes, count) == Cardinality(codes) <= count

\* while len(eans) < count / while len(eics) < count
LoopContinues(codes, count) == Cardinality(codes) < count

\* A call that raises before its loop.
BulkRaise(name, arguments, exception) ==
    /\ pc' = "returned"
    /\ op' = name
    /\ args' = arguments
    /\ out' = Some(Raise(exception))
    /\ UNCHANGED <<registries, out2, acc, drawn, collided>>

\* A call that enters its loop with an empty set.
BulkEnter(name, arguments) ==
    /\ pc' = "loop"
    /\ op' = name
    /\ args' = arguments
    /\ acc' = {}
    /\ drawn' = None
    /\ collided' = FALSE
    /\ UNCHANGED <<registries, out, out2>>

\* Fault: the type checked before the count.
CallGenerateMultipleEANs_type_first(ean_type, count) ==
    /\ pc = "idle"
    /\ LET name == "generate_multiple_eans"
           arguments == <<ean_type, count>>
       IN IF ~is_valid_ean_type(StrUpper(ean_type))
          THEN BulkRaise(name, arguments, "InvalidEANTypeError")
          ELSE IF count <= 0 THEN BulkRaise(name, arguments, "ValueError")
          ELSE BulkEnter(name, arguments)

\* generate_multiple_eans(ean_type, count) up to its loop
CallGenerateMultipleEANs(ean_type, count) ==
    /\ pc = "idle"
    /\ LET name == "generate_multiple_eans"
           arguments == <<ean_type, count>>
       IN IF count <= 0 THEN BulkRaise(name, arguments, "ValueError")
          ELSE IF ~is_valid_ean_type(StrUpper(ean_type))
          THEN BulkRaise(name, arguments, "InvalidEANTypeError")
          ELSE BulkEnter(name, arguments)

\* generate_multiple_eics(country_code, entity_type, count) up to its loop
CallGenerateMultipleEICs(country_code, entity_type, count) ==
    /\ pc = "idle"
    /\ LET name == "generate_multiple_eics"
           arguments == <<country_code, entity_type, count>>
       IN IF count <= 0 THEN BulkRaise(name, arguments, "ValueError")
          ELSE BulkEnter(name, arguments)

\* Fault: a code drawn a second time ends the call with an error.
IterateStopsOnRepeat(code) ==
    IF Raised(code) \/ Val(code) \in acc
    THEN /\ pc' = "returned"
         /\ out' = Some(IF Raised(code) THEN code ELSE Raise("RuntimeError"))
         /\ UNCHANGED <<registries, op, args, out2, acc, drawn, collided>>
    ELSE /\ acc' = acc \cup {Val(code)}
         /\ drawn' = Some(Val(code))
         /\ collided' = (collided \/ Val(code) \in acc)
         /\ UNCHANGED <<registries, pc, op, args, out, out2>>

\* One iteration with the code this draw gives: an exception of the
\* generator leaves the function, a code is added to the set.
Iterate(code) ==
    IF Raised(code)
    THEN /\ pc' = "returned"
         /\ out' = Some(code)
         /\ UNCHANGED <<registries, op, args, out2, acc, drawn, collided>>
    ELSE /\ acc' = acc \cup {Val(code)}
         /\ drawn' = Some(Val(code))
         /\ collided' = (collided \/ Val(code) \in acc)
         /\ UNCHANGED <<registries, pc, op, args, out, out2>>

\* ean = generate_random_ean(ean_type); eans.add(ean)
IterateEANs(k) ==
    /\ pc = "loop" /\ op = "generate_multiple_eans"
    /\ LoopContinues(acc, args[2])
    /\ Iterate(generate_random_ean(StrUpper(args[1]), k))

\* eic = generate_eic(country_code, entity_type); eics.add(eic)
IterateEICs(k) ==
    /\ pc = "loop" /\ op = "generate_multiple_eics"
    /\ LoopContinues(acc, args[3])
    /\ Iterate(generate_eic(args[1], args[2], k))

\* The loop test fails: return list(codes).
ReturnList(count) ==
    /\ ~LoopContinues(acc, count)
    /\ \E l \in Lists(acc) : out' = Some(Return(l))
    /\ pc' = "returned"
    /\ UNCHANGED <<registries, op, args, out2, acc, drawn, collided>>

ReturnEANs ==
    pc = "loop" /\ op = "generate_multiple_eans" /\ ReturnList(args[2])

ReturnEICs ==
    pc = "loop" /\ op = "generate_multiple_eics" /\ ReturnList(args[3])

\* The base codes given to generate_ean next to the bulk calls: the
\* well-formed ones and three malformed ones.
GeneratorBaseInputs == EANBaseTemplates \cup {<<>>, <<"A">>, T_EAN8}

CallGenerateRandomEAN(ean_type, k) ==
    Call("generate_random_ean", <<ean_type>>, generate_random_ean(ean_type, k))

\* The single-code generators called on their own.
GenerateOneEAN ==
    /\ pc = "idle"
    /\ \/ \E base \in GeneratorBaseInputs, t \in EANTypeInputs :
              CallGenerateEAN(base, t)
       \/ \E t \in EANTypeInputs, k \in 1..DrawChars :
              CallGenerateRandomEAN(t, k)

NextBulk ==
    \/ \E t \in EANTypeInputs, n \in CountInputs : CallGenerateMultipleEANs(t, n)
    \/ \E cc \in CountryCodeInputs, et \in EntityTypeInputs, n \in CountInputs :
           CallGenerateMultipleEICs(cc, et, n)
    \/ \E k \in 1..DrawChars : IterateEANs(k)
    \/ \E k \in 1..DrawChars : IterateEICs(k)
    \/ ReturnEANs
    \/ ReturnEICs
    \/ GenerateOneEAN

SpecBulk == Init /\ [][NextBulk]_vars

\* The code the k-th outcome of the random source gives the running call.
DrawOf(k) ==
    IF op = "generate_multiple_eans"
    THEN generate_random_ean(StrUpper(args[1]), k)
    ELSE generate_eic(args[1], args[2], k)

\* The random source is fair: as long as the loop runs, the code last drawn
\* is again and again the one of the k-th outcome.
KeepsDrawing(k) ==
    []<>(pc # "loop" \/ (~Raised(DrawOf(k)) /\ drawn = Some(Val(DrawOf(k)))))

\* A loop whose test fails returns, and the random source is fair.
FairBulk ==
    /\ SpecBulk
    /\ WF_vars(ReturnEANs)
    /\ WF_vars(ReturnEICs)
    /\ \A k \in 1..DrawChars : KeepsDrawing(k)

\* ------------------------------------------------------------ concurrent callers

\* The number of callers running at once.
NumCallers == 2

Callers == 1..NumCallers

\* In the specification of concurrent callers each variable of a call (pc,
\* op, args, out, acc, drawn) is a function of the caller: the locals of a
\* call are its own.  drawn[c] is the set of outcomes of the random source
\* that the call of c has drawn.
InitConc ==
    /\ VALID_COUNTRY_CODES = CountryCodes
    /\ VALID_ENTITY_TYPES = EntityTypes
    /\ pc = [c \in Callers |-> "idle"]
    /\ op = [c \in Callers |-> ""]
    /\ args = [c \in Callers |-> <<>>]
    /\ out = [c \in Callers |-> None]
    /\ out2 = None
    /\ acc = [c \in Callers |-> {}]
    /\ drawn = [c \in Callers |-> {}]
    /\ collided = FALSE

\* What the concurrent callers call.
ConcCodeInputs == {T_EIC16, T_EIC8}

ConcCountryCodeInputs == {<<"2", "7">>, <<"9", "9">>}

ConcCountInputs == {0, 2}

\* The outcomes of the random source the concurrent callers draw.
ConcDraws == {1, 2, 3}

\* Fault: one set for all callers (a module-level set).
SlotShared(c) == 1

\* eics = set(): the set is a local of the call of c.
Slot(c) == c

\* A call of c that returns (or raises) in one step, having drawn draws.
ConcCall(c, name, arguments, result, draws) ==
    /\ pc[c] = "idle"
    /\ pc' = [pc EXCEPT ![c] = "returned"]
    /\ op' = [op EXCEPT ![c] = name]
    /\ args' = [args EXCEPT ![c] = arguments]
    /\ out' = [out EXCEPT ![c] = Some(result)]
    /\ drawn' = [drawn EXCEPT ![c] = draws]
    /\ UNCHANGED <<registries, out2, acc, collided>>

ConcValidate(c) ==
    \E code \in ConcCodeInputs :
        ConcCall(c, "is_valid_eic", <<code>>, is_valid_eic(code), {})

ConcGenerate(c) ==
    \E cc \in ConcCountryCodeInputs, k \in ConcDraws :
        LET result == generate_eic(cc, <<"X">>, k) IN
        ConcCall(c, "generate_eic", <<cc, <<"X">>>>, result,
                 IF Raised(result) THEN {} ELSE {k})

\* generate_multiple_eics(country_code, entity_type, count) up to its loop
ConcBulkCall(c) ==
    \E cc \in ConcCountryCodeInputs, count \in ConcCountInputs :
        LET arguments == <<cc, <<"X">>, count>> IN
        IF count <= 0
        THEN ConcCall(c, "generate_multiple_eics", arguments,
                      Raise("ValueError"), {})
        ELSE /\ pc[c] = "idle"
             /\ pc' = [pc EXCEPT ![c] = "loop"]
             /\ op' = [op EXCEPT ![c] = "generate_multiple_eics"]
             /\ args' = [args EXCEPT ![c] = arguments]
             /\ acc' = [acc EXCEPT ![Slot(c)] = {}]
             /\ UNCHANGED <<registries, out, out2, drawn, collided>>

\* One iteration of the loop of c with the k-th outcome of the random source.
ConcIterate(c, k) ==
    /\ pc[c] = "loop"
    /\ LoopContinues(acc[Slot(c)], args[c][3])
    /\ LET code == generate_eic(args[c][1], args[c][2], k) IN
       IF Raised(code)
       THEN /\ pc' = [pc EXCEPT ![c] = "returned"]
            /\ out' = [out EXCEPT ![c] = Some(code)]
            /\ UNCHANGED <<registries, op, args, out2, acc, drawn, collided>>
       ELSE /\ acc' = [acc EXCEPT ![Slot(c)] = @ \cup {Val(code)}]
            /\ drawn' = [drawn EXCEPT ![c] = @ \cup {k}]
            /\ UNCHANGED <<registries, pc, op, args, out, out2, collided>>

\* The loop test of c fails: return list(eics).
ConcReturn(c) ==
    /\ pc[c] = "loop"
    /\ ~LoopContinues(acc[Slot(c)], args[c][3])
    /\ \E l \in Lists(acc[Slot(c)]) : out' = [out EXCEPT ![c] = Some(Return(l))]
    /\ pc' = [pc EXCEPT ![c] = "returned"]
    /\ UNCHANGED <<registries, op, args, out2, acc, drawn, collided>>

NextConc ==
    \E c \in Callers :
        \/ ConcValidate(c)
        \/ ConcGenerate(c)
        \/ ConcBulkCall(c)
        \/ \E k \in ConcDraws : ConcIterate(c, k)
        \/ ConcReturn(c)

SpecConc == InitConc /\ [][NextConc]_vars

\* ------------------------------------------------------------ claims

AllIn(s, chars) == \A i \in DOMAIN s : s[i] \in chars

Alnum36 == DigitSeq \o UpperSeq

Returned(name) == pc \in {"returned", "checked"} /\ op = name

\* The format the spec gives a data part of this length.
FormatOfBaseLength(n) ==
    CASE n = 7 -> EAN8 [] n = 12 -> EAN13 [] n = 13 -> EAN14

EANBaseGiven ==
    AllIn(args[1], AsciiDigit) /\ Len(args[1]) \in {7, 12, 13}

\* C1: for a digit string d of length 7, 12 or 13 the EAN checksum is one
\* character of '0'..'9', and validate_ean(d ++ checksum) is
\* (True, F, None) with F the format of that length.
C1_EANChecksumRoundTrip ==
    (Returned("calculate_ean_check_digit") /\ EANBaseGiven) =>
        /\ ~Raised(out[1])
        /\ Val(out[1]) \in AsciiDigit
        /\ pc = "checked" =>
               out2[1] =
                   Return(<<TRUE, Some(FormatOfBaseLength(Len(args[1]))), None>>)

C1_Witness ==
    /\ pc = "checked" /\ op = "calculate_ean_check_digit"
    /\ args[1] = T_EAN13B
    /\ out2[1] = Return(<<TRUE, Some(EAN14), None>>)

EICBaseGiven ==
    AllIn(args[1], Range(Alnum36)) /\ Len(args[1]) = 15

\* C2: for a 15-character string b over [0-9A-Z] the EIC checksum is one
\* character of [0-9A-Z], never an exception, and
\* validate_eic_format(b ++ checksum) is valid, without errors, with
\* components whose base is b.
C2_EICChecksumRoundTrip ==
    (Returned("calculate_eic_check_digit") /\ EICBaseGiven) =>
        /\ ~Raised(out[1])
        /\ Val(out[1]) \in Range(Alnum36)
        /\ pc = "checked" =>
               /\ Val(out2[1]).is_valid = TRUE
               /\ Val(out2[1]).errors = <<>>
               /\ Val(out2[1]).components # None
               /\ EICBase(Val(out2[1]).components[1]) = args[1]

C2_Witness ==
    /\ pc = "checked" /\ op = "calculate_eic_check_digit"
    /\ args[1] = T_EIC15ONE
    /\ Val(out2[1]).is_valid
    /\ EICBase(Val(out2[1]).components[1]) = T_EIC15ONE

RECURSIVE RefEANSum(_, _)
\* The sum of the digits of d at positions p, p + 1, ... counted from the
\* rightmost digit (position 1), weighted 3 at odd and 1 at even positions.
RefEANSum(d, p) ==
    IF p > Len(d) THEN 0
    ELSE (IF p % 2 = 1 THEN 3 ELSE 1) * (IndexOf(DigitSeq, d[Len(d) + 1 - p]) - 1)
         + RefEANSum(d, p + 1)

RefEANCheckDigit(d) == DigitSeq[((10 - (RefEANSum(d, 1) % 10)) % 10) + 1]

\* C3: for a digit string d of length 7, 12 or 13 the EAN checksum is the
\* Mod-10 value (10 - (S mod 10)) mod 10 of the weighted digit sum S; it is
\* '0' for '1234567' and '1' for '400638133393'.
C3_EANChecksumIsMod10 ==
    (Returned("calculate_ean_check_digit") /\ EANBaseGiven) =>
        /\ out[1] = Return(RefEANCheckDigit(args[1]))
        /\ args[1] = T_EAN7 => out[1] = Return("0")
        /\ args[1] = T_EAN12 => out[1] = Return("1")

C3_Witness ==
    /\ Returned("calculate_ean_check_digit")
    /\ args[1] = T_EAN12
    /\ out[1] = Return("1")

RECURSIVE RefEICRemainder(_, _)
\* r after the characters 1..n of b: r := (r * 36 + value(c)) mod 37 from 0.
RefEICRemainder(b, n) ==
    IF n = 0 THEN 0
    ELSE (RefEICRemainder(b, n - 1) * 36 + (IndexOf(Alnum36, b[n]) - 1)) % 37

RefEICCheckChar(b) ==
    LET v == (37 - RefEICRemainder(b, Len(b))) % 37
    IN Alnum36[(IF v = 36 THEN 0 ELSE v) + 1]

\* C4: for a 15-character string b over [0-9A-Z] the EIC checksum is the
\* character of the value v of the reference fold, v = 36 replaced by 0;
\* the all-zero base gives '0'.
C4_EICChecksumIsMod3736 ==
    (Returned("calculate_eic_check_digit") /\ EICBaseGiven) =>
        /\ out[1] = Return(RefEICCheckChar(args[1]))
        /\ args[1] = T_EIC15ZERO => out[1] = Return("0")

C4_Witness ==
    /\ Returned("calculate_eic_check_digit")
    /\ args[1] = T_EIC15
    /\ out[1] = Return("H")

\* C5: for a recognized type T and an all-digit base of the length T
\* requires, generate_ean(base, T) is base ++ checksum(base) and
\* validate_ean of it is (True, T, None).
C5_EANGenerateRoundTrip ==
    (/\ Returned("generate_ean")
     /\ args[2] \in {EAN8, EAN13, EAN14}
     /\ AllIn(args[1], AsciiDigit)
     /\ Len(args[1]) = EANBaseLength(args[2])) =>
        /\ ~Raised(out[1])
        /\ Val(out[1]) = args[1] \o <<RefEANCheckDigit(args[1])>>
        /\ pc = "checked" => out2[1] = Return(<<TRUE, Some(args[2]), None>>)

C5_Witness ==
    /\ pc = "checked" /\ op = "generate_ean"
    /\ args = <<T_EAN12, EAN13>>
    /\ Val(out[1]) = T_EAN13
    /\ out2[1] = Return(<<TRUE, Some(EAN13), None>>)

\* The normalization of the EAN validator: spaces and hyphens removed,
\* surrounding whitespace trimmed.
EANNormalized(raw) == Strip(Filter(Filter(raw, " "), "-"))

NonNumericError == Msg("EAN must contain only numeric digits (0-9)")

EANLengthError(n) ==
    MsgWith("Invalid EAN length: expected 8, 13, or 14 digits, got", n)

CheckDigitError == Msg("Invalid check digit")

\* The four stages on the normalized string c, with this set of digits.
EANStages(c, digits, r) ==
    IF c = <<>> \/ ~AllIn(c, digits)
    THEN r.is_valid = FALSE /\ r.errors = <<NonNumericError>>
    ELSE IF Len(c) \notin {8, 13, 14}
    THEN r.is_valid = FALSE /\ r.errors = <<EANLengthError(Len(c))>>
    ELSE IF ~AllIn(c, AsciiDigit)
            \/ c[Len(c)] # RefEANCheckDigit(SubSeq(c, 1, Len(c) - 1))
    THEN r.is_valid = FALSE /\ r.errors = <<CheckDigitError>>
    ELSE /\ r.is_valid = TRUE
         /\ r.errors = <<>>
         /\ r.format = Some(FormatOfBaseLength(Len(c) - 1))

\* C8: the stages of the EAN validator on the normalized input: not all
\* digits 0-9 (the empty string included) gives only the non-numeric error;
\* else a length other than 8, 13, 14 gives only the invalid-length error;
\* else a last digit other than the checksum gives only 'Invalid check
\* digit'; otherwise the code is valid with the format of its length.
C8_EANValidatorStages ==
    Returned("validate_ean_format") =>
        EANStages(EANNormalized(args[1]), AsciiDigit, Val(out[1]))

\* On inputs of ASCII characters alone the stages hold: the code departs
\* from them only on digits outside 0-9.
C8_StagesOnAsciiInput ==
    (Returned("validate_ean_format") /\ ~(\E i \in DOMAIN args[1] :
                                            args[1][i] \in {"SUP2", "AR3"})) =>
        EANStages(EANNormalized(args[1]), AsciiDigit, Val(out[1]))

\* The normalization of the EIC validator: spaces and hyphens removed,
\* upper-cased.
EICNormalized(raw) == StrUpper(Filter(Filter(raw, " "), "-"))

EICLengthError(n) ==
    MsgWith("Invalid EIC length: expected 16 characters, got", n)

EICCharsetError ==
    Msg("EIC contains invalid characters. Only 0-9 and A-Z are allowed")

\* C9: a normalized length other than 16 gives exactly one length error,
\* also when characters outside [0-9A-Z] are present; length 16 with such a
\* character gives exactly one character-set error; components is None.
C9_EICValidatorEarlyStops ==
    Returned("validate_eic_format") =>
        LET c == EICNormalized(args[1]) IN
        /\ Len(c) # 16 =>
               /\ Val(out[1]).errors = <<EICLengthError(Len(c))>>
               /\ Val(out[1]).components = None
               /\ Val(out[1]).is_valid = FALSE
        /\ (Len(c) = 16 /\ ~AllIn(c, Range(Alnum36))) =>
               /\ Val(out[1]).errors = <<EICCharsetError>>
               /\ Val(out[1]).components = None
               /\ Val(out[1]).is_valid = FALSE

C9_Witness ==
    /\ Returned("validate_eic_format")
    /\ Len(EICNormalized(args[1])) = 9
    /\ ~AllIn(EICNormalized(args[1]), Range(Alnum36))
    /\ Val(out[1]).errors = <<EICLengthError(9)>>

\* C10: in the results of validate_eic_format, is_valid_eic,
\* validate_ean_format and is_valid_ean, is_valid is True exactly when the
\* error list is empty, components is present exactly when is_valid is True,
\* and so is the format of the EAN results.
C10_ValidIffNoErrors ==
    /\ (Returned("validate_eic_format") \/ Returned("is_valid_eic")
        \/ Returned("validate_ean_format") \/ Returned("is_valid_ean")) =>
           /\ Val(out[1]).is_valid = TRUE <=> Val(out[1]).errors = <<>>
           /\ Val(out[1]).components # None <=> Val(out[1]).is_valid = TRUE
    /\ (Returned("validate_ean_format") \/ Returned("is_valid_ean")) =>
           (Val(out[1]).format # None <=> Val(out[1]).is_valid = TRUE)

C10_Witness ==
    /\ Returned("is_valid_ean")
    /\ args[1] = T_EAN8SEP
    /\ Val(out[1]).is_valid
    /\ Val(out[1]).components[1].data_part = T_EAN7

BulkCount ==
    IF op = "generate_multiple_eans" THEN args[2]
    ELSE IF op = "generate_multiple_eics" THEN args[3]
    ELSE 0

BulkReturned(name) ==
    pc = "returned" /\ op = name /\ ~Raised(out[1])

Distinct(l) == \A i, j \in DOMAIN l : i # j => l[i] # l[j]

\* C6: a returned bulk call gives exactly count codes, pairwise distinct,
\* each valid on its own (EAN: the requested format; EIC: the requested
\* office and entity type); in the loop the set never holds more than count
\* codes, and a draw of a code already in the set leaves the set unchanged.
C6_BulkUniqueness ==
    /\ [](BulkReturned("generate_multiple_eans") =>
            LET l == Val(out[1]) IN
            /\ Len(l) = args[2]
            /\ Distinct(l)
            /\ \A i \in DOMAIN l :
                   validate_ean(l[i]) = Return(<<TRUE, Some(StrUpper(args[1])), None>>))
    /\ [](BulkReturned("generate_multiple_eics") =>
            LET l == Val(out[1]) IN
            /\ Len(l) = args[3]
            /\ Distinct(l)
            /\ \A i \in DOMAIN l :
                   LET r == Val(is_valid_eic(l[i])) IN
                   /\ r.is_valid
                   /\ r.components[1].office_id = StrUpper(args[1])
                   /\ <<r.components[1].entity_type>> = StrUpper(args[2]))
    /\ [](pc = "loop" => Cardinality(acc) <= BulkCount)
    /\ [][(pc = "loop" /\ pc' = "loop" /\ drawn' # None /\ drawn'[1] \in acc)
             => acc' = acc]_vars

C6_Witness ==
    /\ BulkReturned("generate_multiple_eics")
    /\ args = <<<<"x", "1">>, <<"z">>, 3>>
    /\ Len(Val(out[1])) = 3
    /\ collided

ValidBulkParameters ==
    IF op = "generate_multiple_eans" THEN is_valid_ean_type(StrUpper(args[1]))
    ELSE is_valid_country_code(args[1]) /\ is_valid_entity_type(args[2])

\* C7: with valid parameters and a count of at least 1 and at most the
\* number of codes the random source can give, under a fair random source
\* the loop reaches len(set) = count and the call returns.
C7_BulkTerminates ==
    (pc = "loop" /\ ValidBulkParameters /\ BulkCount <= DrawChars)
        ~> (pc = "returned" /\ ~Raised(out[1]) /\ Len(Val(out[1])) = BulkCount)

C7_Witness ==
    /\ BulkReturned("generate_multiple_eans")
    /\ args[2] = DrawChars
    /\ Len(Val(out[1])) = DrawChars
    /\ collided

\* C11: for every input raw, valid or not and of any length, the eic_code
\* field of the result of is_valid_eic is raw with hyphens and spaces
\* removed and upper-cased.
C11_AlwaysNormalizedCode ==
    Returned("is_valid_eic") => Val(out[1]).eic_code = EICNormalized(args[1])

\* The field is the normalized code when that has 16 characters; otherwise
\* it is the input as given.
C11_NormalizedWhenSixteen ==
    Returned("is_valid_eic") =>
        Val(out[1]).eic_code = IF Len(EICNormalized(args[1])) = 16
                          THEN EICNormalized(args[1]) ELSE args[1]

ValidationFunctions ==
    {"validate_ean", "validate_ean_format", "is_valid_ean",
     "validate_ean_check_digit", "parse_ean_components",
     "validate_eic_format", "is_valid_eic", "validate_eic_check_digit",
     "parse_eic_components"}

\* The check-digit calculator raises on the data part of this argument.
CalculatorRaises ==
    \/ /\ op = "validate_ean_check_digit"
       /\ IsDigit(args[1]) /\ Len(args[1]) \in {8, 13, 14}
       /\ Raised(_calculate_ean_check_digit(SubSeq(args[1], 1, Len(args[1]) - 1)))
    \/ /\ op = "validate_eic_check_digit"
       /\ Len(args[1]) = 16
       /\ Raised(calculate_eic_check_digit(SubSeq(StrUpper(args[1]), 1, 15)))

\* C12: every validation function returns a value on every input string and
\* propagates no exception: the result records of an invalid input have
\* is_valid False with a non-empty error list, and a ValueError raised in a
\* check-digit calculator is caught and gives False.
C12_ValidationNeverRaises ==
    (pc \in {"returned", "checked"} /\ op \in ValidationFunctions) =>
        /\ ~Raised(out[1])
        /\ op \in {"validate_ean_format", "is_valid_ean", "validate_eic_format",
                   "is_valid_eic"} =>
               (Val(out[1]).is_valid = FALSE => Val(out[1]).errors # <<>>)
        /\ op = "validate_ean" =>
               (Val(out[1])[1] = FALSE => Val(out[1])[3] # None)
        /\ op \in {"validate_ean_check_digit", "validate_eic_check_digit"} =>
               /\ Val(out[1]) \in BOOLEAN
               /\ CalculatorRaises => Val(out[1]) = FALSE

C12_Witness ==
    /\ Returned("validate_eic_check_digit")
    /\ CalculatorRaises
    /\ out[1] = Return(FALSE)

C12_WitnessEAN ==
    /\ Returned("validate_ean_check_digit")
    /\ CalculatorRaises
    /\ out[1] = Return(FALSE)

\* The base is not a string of digits 0-9 of the length the type requires.
EANBaseInvalid(base, type) ==
    base = <<>> \/ ~AllIn(base, AsciiDigit) \/ Len(base) # EANBaseLength(type)

\* C13: for a recognized type T, generate_ean(base, T) fails with
\* InvalidBaseCodeError exactly when base is not all digits or its length is
\* not the one T requires (7, 12, 13); otherwise it returns a code.
C13_EANBaseCodeFailure ==
    (Returned("generate_ean") /\ args[2] \in {EAN8, EAN13, EAN14}) =>
        /\ out[1] = Raise("InvalidBaseCodeError")
               <=> EANBaseInvalid(args[1], args[2])
        /\ ~EANBaseInvalid(args[1], args[2]) => ~Raised(out[1])

\* On base codes of ASCII characters alone the failure is as stated: the
\* code departs from it only on digits outside 0-9.
C13_OnAsciiInput ==
    (/\ Returned("generate_ean") /\ args[2] \in {EAN8, EAN13, EAN14}
     /\ ~(\E i \in DOMAIN args[1] : args[1][i] \in {"SUP2", "AR3"})) =>
        /\ out[1] = Raise("InvalidBaseCodeError")
               <=> EANBaseInvalid(args[1], args[2])
        /\ ~EANBaseInvalid(args[1], args[2]) => ~Raised(out[1])

\* The upper-cased strings are a member of the office-code registry, and of
\* the entity-type registry.
InCountryRegistry(cc) == Len(cc) = 2 /\ cc \in VALID_COUNTRY_CODES

InEntityRegistry(et) == Len(et) = 1 /\ et[1] \in VALID_ENTITY_TYPES

\* C14: after upper-casing, generate_eic(cc, et) fails with
\* InvalidCountryCodeError whenever cc is not 2 characters or not in the
\* registry, also when et is invalid too; with a valid cc it fails with
\* InvalidEntityTypeError whenever et is not 1 character or not in the
\* registry; ('99','X') and ('27','Q') fail so; a failure draws and returns
\* no code.
C14_EICParameterFailures ==
    Returned("generate_eic") =>
        LET cc == StrUpper(args[1])
            et == StrUpper(args[2])
        IN /\ ~InCountryRegistry(cc) => out[1] = Raise("InvalidCountryCodeError")
           /\ (InCountryRegistry(cc) /\ ~InEntityRegistry(et)) =>
                  out[1] = Raise("InvalidEntityTypeError")
           /\ args = <<<<"9", "9">>, <<"X">>>> =>
                  out[1] = Raise("InvalidCountryCodeError")
           /\ args = <<<<"2", "7">>, <<"Q">>>> =>
                  out[1] = Raise("InvalidEntityTypeError")
           /\ Raised(out[1]) => (out[1].val = <<>> /\ drawn = None /\ pc = "returned")

C14_Witness ==
    /\ Returned("generate_eic")
    /\ args = <<<<"9", "9">>, <<"Q">>>>
    /\ out[1] = Raise("InvalidCountryCodeError")

\* C15: for registry members cc and et in any letter case and every draw,
\* generate_eic(cc, et) returns 16 characters over [0-9A-Z]: upper(cc), then
\* upper(et), the last one the check digit of the first 15; is_valid_eic
\* reports it valid with office_id upper(cc) and entity_type upper(et).
C15_EICGenerateOutput ==
    LET cc == StrUpper(args[1])
        et == StrUpper(args[2])
    IN (Returned("generate_eic") /\ InCountryRegistry(cc) /\ InEntityRegistry(et)) =>
           /\ ~Raised(out[1])
           /\ Len(Val(out[1])) = 16
           /\ AllIn(Val(out[1]), Range(Alnum36))
           /\ SubSeq(Val(out[1]), 1, 2) = cc
           /\ Val(out[1])[3] = et[1]
           /\ Return(Val(out[1])[16]) =
                  calculate_eic_check_digit(SubSeq(Val(out[1]), 1, 15))
           /\ pc = "checked" =>
                  /\ ~Raised(out2[1])
                  /\ Val(out2[1]).is_valid
                  /\ Val(out2[1]).components[1].office_id = cc
                  /\ Val(out2[1]).components[1].entity_type = et[1]

C15_Witness ==
    /\ pc = "checked" /\ op = "generate_eic"
    /\ args = <<<<"x", "1">>, <<"z">>>>
    /\ SubSeq(Val(out[1]), 1, 3) = <<"X", "1", "Z">>
    /\ Val(out2[1]).is_valid
    /\ Val(out2[1]).components[1].office_id = <<"X", "1">>

\* C16: for every count <= 0 generate_multiple_eans and
\* generate_multiple_eics fail with the ValueError of the count, whatever
\* the type, country code and entity type are, without entering the loop
\* and without drawing a code.
C16_BulkCountRejection ==
    (op \in {"generate_multiple_eans", "generate_multiple_eics"}
     /\ BulkCount <= 0) =>
        /\ pc = "returned"
        /\ out[1] = Raise("ValueError")
        /\ acc = {}
        /\ drawn = None

C16_Witness ==
    /\ op = "generate_multiple_eans"
    /\ args = <<<<"E", "A", "N", "-", "1", "2">>, 0>>
    /\ out[1] = Raise("ValueError")

C16_WitnessEIC ==
    /\ op = "generate_multiple_eics"
    /\ args = <<<<"9", "9">>, <<"Q">>, -1>>
    /\ out[1] = Raise("ValueError")

\* What the call returns when it runs alone and the random source gives it
\* the outcomes in draws.
AloneResults(name, arguments, draws) ==
    CASE name = "is_valid_eic" -> {is_valid_eic(arguments[1])}
      [] name = "generate_eic" ->
             {generate_eic(arguments[1], arguments[2], k) :
                  k \in IF draws = {} THEN {1} ELSE draws}
      [] name = "generate_multiple_eics" ->
             IF arguments[3] <= 0 THEN {Raise("ValueError")}
             ELSE IF Raised(generate_eic(arguments[1], arguments[2], 1))
             THEN {generate_eic(arguments[1], arguments[2], 1)}
             ELSE {Return(l) :
                       l \in Lists({Val(generate_eic(arguments[1], arguments[2], k)) :
                                        k \in draws})}

\* C17: in every interleaving of validate, generate and bulk calls of
\* several callers each call returns what it returns when run alone with
\* the same draws, a returned bulk call gives exactly its own count of
\* distinct valid codes, and the two registries keep their contents.
C17_CallersDoNotInterfere ==
    /\ VALID_COUNTRY_CODES = CountryCodes
    /\ VALID_ENTITY_TYPES = EntityTypes
    /\ \A c \in Callers :
           pc[c] = "returned" =>
               /\ out[c][1] \in AloneResults(op[c], args[c], drawn[c])
               /\ (op[c] = "generate_multiple_eics" /\ ~Raised(out[c][1])) =>
                      LET l == Val(out[c][1]) IN
                      /\ Len(l) = args[c][3]
                      /\ Distinct(l)
                      /\ \A i \in DOMAIN l : Val(is_valid_eic(l[i])).is_valid

\* Two bulk calls were in their loops together and both returned, with
\* different codes.
C17_Witness ==
    /\ \A c \in {1, 2} :
           /\ pc[c] = "returned" /\ op[c] = "generate_multiple_eics"
           /\ ~Raised(out[c][1]) /\ Len(Val(out[c][1])) = 2
    /\ drawn[1] # drawn[2]
    /\ drawn[1] \cap drawn[2] # {}

\* C18: _char_to_value maps '0'..'9' to 0..9 and 'A'..'Z' to 10..35 and
\* raises ValueError on every other character, lowercase letters included;
\* _value_to_char raises ValueError outside 0..35; each is the inverse of
\* the other on [0-9A-Z] and 0..35.
C18_EICCodecBijection ==
    /\ Returned("_char_to_value") =>
           LET c == args[1] IN
           /\ c \in AsciiDigit => out[1] = Return(IndexOf(DigitSeq, c) - 1)
           /\ c \in AsciiUpper => out[1] = Return(IndexOf(UpperSeq, c) + 9)
           /\ c \notin AsciiDigit \cup AsciiUpper => out[1] = Raise("ValueError")
           /\ pc = "checked" => out2[1] = Return(c)
    /\ Returned("_value_to_char") =>
           LET v == args[1] IN
           /\ v \notin 0..35 => out[1] = Raise("ValueError")
           /\ v \in 0..35 => (~Raised(out[1]) /\ Val(out[1]) \in Range(Alnum36))
           /\ pc = "checked" => out2[1] = Return(v)

C18_Witness ==
    /\ pc = "checked" /\ op = "_char_to_value"
    /\ args = <<"Z">>
    /\ out[1] = Return(35)
    /\ out2[1] = Return("Z")

C18_WitnessValue ==
    /\ pc = "checked" /\ op = "_value_to_char"
    /\ args = <<10>>
    /\ out[1] = Return("A")
    /\ out2[1] = Return(10)

\* ---- C19 ----
LengthError ==
    RaiseMsg("ValueError", "EIC base must be exactly 15 characters long")

InvalidCharacterError ==
    RaiseMsg("ValueError", "Invalid character in EIC base")

\* C19 as stated: calculate_eic_check_digit(base) fails with the length error
\* whenever base has not exactly 15 characters, whatever the characters are,
\* and with the invalid-character error whenever one of the 15 characters is
\* outside [0-9A-Z] as given, a lowercase letter included.
C19_CaseSensitiveFailures ==
    Returned("calculate_eic_check_digit") =>
        LET base == args[1] IN
        /\ Len(base) # 15 => out[1] = LengthError
        /\ (Len(base) = 15 /\ ~AllIn(base, Range(Alnum36))) =>
               out[1] = InvalidCharacterError

\* C19 amended: the length of the base as given is tested first; the
\* characters are tested after upper(), so a 15-character base fails with the
\* invalid-character error whenever its upper-cased form has a character
\* outside [0-9A-Z], and a base of digits and letters of either case gets the
\* check digit of its upper-cased form.
C19_FailuresAfterUpper ==
    Returned("calculate_eic_check_digit") =>
        LET base == args[1] IN
        /\ Len(base) # 15 => out[1] = LengthError
        /\ (Len(base) = 15 /\ ~AllIn(StrUpper(base), Range(Alnum36))) =>
               out[1] = InvalidCharacterError
        /\ (Len(base) = 15
            /\ AllIn(base, Range(Alnum36) \cup Range(LowerSeq))) =>
               out[1] = Return(RefEICCheckChar(StrUpper(base)))

\* A base of wrong length with a character outside the alphabet, and a
\* 15-character base with a lowercase letter.
C19_Witness ==
    /\ Returned("calculate_eic_check_digit")
    /\ Len(args[1]) = 16 /\ ~AllIn(StrUpper(args[1]), Range(Alnum36))
    /\ out[1] = LengthError

C19_WitnessLower ==
    /\ Returned("calculate_eic_check_digit")
    /\ Len(args[1]) = 15 /\ \E i \in DOMAIN args[1] : args[1][i] = "h"
    /\ ~Raised(out[1])

C19_WitnessCharacter ==
    /\ Returned("calculate_eic_check_digit")
    /\ Len(args[1]) = 15 /\ out[1] = InvalidCharacterError

\* ---- C20 ----
\* C20: validation does not depend on how a code is written: for x obtained
\* from y by writing spaces and hyphens into it (and, for EIC, changing the
\* case of letters), validate_ean(x) = validate_ean(y) and
\* validate_eic_format(x) = validate_eic_format(y).
C20_NormalizationInvariance ==
    (pc = "checked" /\ op \in {"validate_ean", "validate_eic_format"}) =>
        out2[1] = out[1]

\* The same for codes without the capital sharp s, the letter whose lower-case
\* form upper() turns into two characters.
C20_WithoutCapitalSharpS ==
    (/\ pc = "checked" /\ op \in {"validate_ean", "validate_eic_format"}
     /\ \A i \in DOMAIN args[1] : args[1][i] # "CSZ") =>
        out2[1] = out[1]

\* A valid code with a separator written into it is reported valid with the
\* same format or components.
C20_WitnessEAN ==
    /\ pc = "checked" /\ op = "validate_ean"
    /\ args[2] # args[1]
    /\ Val(out[1])[1] = TRUE
    /\ out2[1] = out[1]

C20_WitnessEIC ==
    /\ pc = "checked" /\ op = "validate_eic_format"
    /\ args[2] = StrLower(args[1]) /\ args[2] # args[1]
    /\ Val(out[1]).is_valid
    /\ out2[1] = out[1]

\* ---- C21 ----
\* The error messages of the EAN validator, one at a time.
EANSingleErrors ==
    {NonNumericError, CheckDigitError}
        \cup {EANLengthError(n) : n \in 0..(Len(T_EAN15) + MaxWindow)}

\* C21: validate_ean returns (True, F, None) with F one of the three formats
\* or (False, None, m) with m one error message, never two joined by '; ';
\* the error list of validate_ean_format has exactly one entry whenever the
\* code is invalid.
C21_ExactlyOneEANError ==
    /\ Returned("validate_ean") =>
           \/ \E F \in {EAN8, EAN13, EAN14} :
                  out[1] = Return(<<TRUE, Some(F), None>>)
           \/ \E m \in EANSingleErrors :
                  out[1] = Return(<<FALSE, None, Some(m)>>)
    /\ Returned("validate_ean_format") =>
           /\ ~Raised(out[1])
           /\ ~Val(out[1]).is_valid => Len(Val(out[1]).errors) = 1

\* An invalid code of a wrong length that is also not its own check: the
\* length error alone.
C21_Witness ==
    /\ Returned("validate_ean")
    /\ \E n \in {7, 9, 12, 15} :
           out[1] = Return(<<FALSE, None, Some(EANLengthError(n))>>)

\* ---- C22 ----
\* C22: for every 15-character base b of digits and letters of either case
\* calculate_eic_check_digit(b) returns a check digit, the one it returns
\* for upper(b).
C22_EICChecksumIgnoresCase ==
    (/\ Returned("calculate_eic_check_digit")
     /\ Len(args[1]) = 15
     /\ AllIn(args[1], Range(Alnum36) \cup AsciiLower)) =>
        /\ ~Raised(out[1])
        /\ Val(out[1]) \in Range(Alnum36)
        /\ out[1] = calculate_eic_check_digit(StrUpper(args[1]))

\* A base with a lowercase letter got its check digit.
C22_Witness ==
    /\ Returned("calculate_eic_check_digit")
    /\ Len(args[1]) = 15
    /\ AllIn(args[1], Range(Alnum36) \cup AsciiLower)
    /\ args[1] # StrUpper(args[1])
    /\ out[1] = Return(RefEICCheckChar(StrUpper(args[1])))

\* ---- C23 ----
EANTypes == {EAN8, EAN13, EAN14}

\* A base code of ASCII digits of the length the type asks for.
WellFormedBase(base, type) ==
    AllIn(base, AsciiDigit) /\ Len(base) = EANBaseLength(type)

\* C23: the generators compare the EAN type after upper(): with a case
\* variant of one of the three types and a well-formed base generate_ean
\* returns what it returns for the upper-cased type; with any other type
\* generate_ean (also with a malformed base), generate_random_ean and
\* generate_multiple_eans with count >= 1 raise InvalidEANTypeError.
C23_EANTypeIgnoresCase ==
    /\ Returned("generate_ean") =>
           LET base == args[1]
               type == StrUpper(args[2])
           IN /\ type \notin EANTypes =>
                     out[1] = Raise("InvalidEANTypeError")
              /\ (type \in EANTypes /\ WellFormedBase(base, type)) =>
                     /\ ~Raised(out[1])
                     /\ out[1] = generate_ean(base, type)
    /\ Returned("generate_random_ean") =>
           (StrUpper(args[1]) \notin EANTypes =>
                out[1] = Raise("InvalidEANTypeError"))
    /\ (op = "generate_multiple_eans" /\ args[2] >= 1
        /\ StrUpper(args[1]) \notin EANTypes) =>
           /\ pc = "returned"
           /\ out[1] = Raise("InvalidEANTypeError")
           /\ acc = {}

\* generate_ean with a type in another case and a well-formed base returned
\* a code.
C23_Witness ==
    /\ Returned("generate_ean")
    /\ args[2] # StrUpper(args[2])
    /\ StrUpper(args[2]) \in EANTypes
    /\ WellFormedBase(args[1], StrUpper(args[2]))
    /\ ~Raised(out[1])

\* An unknown type with a malformed base, in the random generator and in the
\* bulk generator: InvalidEANTypeError.
C23_WitnessBase ==
    /\ Returned("generate_ean")
    /\ args = <<<<"A">>, <<"E", "A", "N", "-", "1", "2">>>>
    /\ out[1] = Raise("InvalidEANTypeError")

C23_WitnessRandom ==
    /\ Returned("generate_random_ean")
    /\ out[1] = Raise("InvalidEANTypeError")

C23_WitnessBulk ==
    /\ op = "generate_multiple_eans" /\ args[2] >= 1
    /\ out # None /\ out[1] = Raise("InvalidEANTypeError")

C24_WitnessValid ==
    /\ Returned("validate_ean") /\ args[1] = T_EAN14
    /\ out[1] = Return(<<TRUE, Some(EAN14), None>>)

\* ---- C25 ----
\* The number of distinct codes a bulk call can draw: one for each outcome of
\* the random source.
PoolSize == DrawChars

\* C25: a bulk call with valid parameters and a count above the number of
\* distinct codes that can be generated never returns and never raises: in
\* every state it is in its loop with fewer than count codes.
C25_NoExhaustionOutcome ==
    (/\ op \in {"generate_multiple_eans", "generate_multiple_eics"}
     /\ BulkCount > PoolSize
     /\ ValidBulkParameters) =>
        /\ pc = "loop"
        /\ out = None
        /\ Cardinality(acc) < BulkCount

\* Every code of the pool has been drawn and the call is still in its loop.
C25_Witness ==
    /\ pc = "loop"
    /\ op = "generate_multiple_eans"
    /\ BulkCount > PoolSize
    /\ Cardinality(acc) = PoolSize
    /\ collided

C25_WitnessEIC ==
    /\ pc = "loop"
    /\ op = "generate_multiple_eics"
    /\ BulkCount > PoolSize
    /\ Cardinality(acc) = PoolSize
    /\ collided

\* ---- C26 ----
\* C26: the replacement of the value 36 by 0 is taken: a 15-character base
\* over [0-9A-Z] whose fold remainder is 1 (fourteen '0' and '1' is one) has
\* (37 - remainder) mod 37 = 36, a value _value_to_char rejects, and gets
\* the check digit '0', as the bases with remainder 0 do.
C26_RemapIsTaken ==
    (Returned("calculate_eic_check_digit") /\ EICBaseGiven) =>
        /\ args[1] = T_EIC15ONE => EICFold(args[1], 0) = Return(1)
        /\ EICFold(args[1], 0) = Return(1) =>
               /\ (37 - Val(EICFold(args[1], 0))) % 37 = 36
               /\ Raised(_value_to_char(36))
               /\ out[1] = Return("0")
        /\ EICFold(args[1], 0) = Return(0) => out[1] = Return("0")

\* The base of fourteen '0' and '1' has returned '0'.
C26_Witness ==
    /\ Returned("calculate_eic_check_digit")
    /\ args[1] = T_EIC15ONE
    /\ EICFold(args[1], 0) = Return(1)
    /\ out[1] = Return("0")

\* A base with remainder 0 has returned '0' too.
C26_WitnessZero ==
    /\ Returned("calculate_eic_check_digit")
    /\ EICBaseGiven
    /\ EICFold(args[1], 0) = Return(0)
    /\ out[1] = Return("0")

\* ---- C27 ----
\* The parts parse_eic_components must give for the 16-character string s.
EICSplitOf(s, c) ==
    /\ c.office_id = SubSeq(s, 1, 2)
    /\ c.entity_type = s[3]
    /\ c.individual_id = SubSeq(s, 4, 15)
    /\ c.check_digit = s[16]
    /\ EICBase(c) = SubSeq(s, 1, 15)
    /\ EICFullCode(c) = s

\* The parts parse_ean_components must give for the digit string e.
EANSplitOf(e, c) ==
    /\ c.data_part = SubSeq(e, 1, Len(e) - 1)
    /\ c.check_digit = e[Len(e)]
    /\ c.format = (CASE Len(e) = 8 -> EAN8
                     [] Len(e) = 13 -> EAN13
                     [] Len(e) = 14 -> EAN14)
    /\ EANFullCode(c) = e

\* C27: parsing is a lossless split. parse_eic_components of a 16-character
\* string s over [0-9A-Z] gives office_id s[0..1], entity_type s[2],
\* individual_id s[3..14], check_digit s[15], base s[0..14], full_code s;
\* parse_ean_components of a string e of 8, 13 or 14 digits 0-9 gives
\* data_part e without its last digit, check_digit the last digit, the
\* format of the length, full_code e; the components of a code reported
\* valid have the checksum of their base or data part as check_digit.
C27_LosslessSplit ==
    /\ (/\ Returned("parse_eic_components")
        /\ Len(args[1]) = 16
        /\ AllIn(args[1], Range(Alnum36))) =>
           /\ ~Raised(out[1])
           /\ Val(out[1]) # None
           /\ EICSplitOf(args[1], Val(out[1])[1])
    /\ (/\ Returned("parse_ean_components")
        /\ Len(args[1]) \in {8, 13, 14}
        /\ AllIn(args[1], AsciiDigit)) =>
           /\ ~Raised(out[1])
           /\ Val(out[1]) # None
           /\ EANSplitOf(args[1], Val(out[1])[1])
    /\ (/\ Returned("validate_eic_format") \/ Returned("is_valid_eic")
        /\ ~Raised(out[1])
        /\ Val(out[1]).is_valid) =>
           /\ Val(out[1]).components # None
           /\ calculate_eic_check_digit(EICBase(Val(out[1]).components[1]))
                  = Return(Val(out[1]).components[1].check_digit)
    /\ (/\ Returned("validate_ean_format") \/ Returned("is_valid_ean")
        /\ ~Raised(out[1])
        /\ Val(out[1]).is_valid) =>
           /\ Val(out[1]).components # None
           /\ calculate_ean_check_digit(Val(out[1]).components[1].data_part)
                  = Return(Val(out[1]).components[1].check_digit)

\* parse_eic_components has split 27XGOEPS0000001H.
C27_Witness ==
    /\ Returned("parse_eic_components")
    /\ args[1] = T_EIC16
    /\ Val(out[1]) # None
    /\ Val(out[1])[1].individual_id = SubSeq(T_EIC16, 4, 15)

C27_WitnessEAN ==
    /\ Returned("parse_ean_components")
    /\ args[1] = T_EAN13
    /\ Val(out[1]) # None
    /\ Val(out[1])[1].data_part = T_EAN12

C27_WitnessValidEIC ==
    /\ Returned("validate_eic_format")
    /\ args[1] = T_EIC16
    /\ Val(out[1]).is_valid
    /\ Val(out[1]).components[1].check_digit = "H"

C27_WitnessValidEAN ==
    /\ Returned("validate_ean_format")
    /\ args[1] = T_EAN13
    /\ Val(out[1]).is_valid
    /\ Val(out[1]).components[1].check_digit = "1"

\* ---- C28 ----
\* x is y with exactly one of its first 15 characters replaced by another
\* character of [0-9A-Z].
EICSubstitution(y, x) ==
    /\ Len(y) = 16 /\ Len(x) = 16
    /\ x[16] = y[16]
    /\ Cardinality({i \in 1..15 : x[i] # y[i]}) = 1
    /\ \A i \in 1..15 : x[i] # y[i] => x[i] \in Range(Alnum36)

\* C28: a 16-character code reported valid by validate_eic_format, with one
\* of its first 15 characters replaced by a different character of [0-9A-Z],
\* is reported invalid with the check-digit error.
C28_SingleSubstitutionDetected ==
    (/\ pc = "substituted" /\ op = "validate_eic_format"
     /\ Val(out[1]).is_valid
     /\ EICSubstitution(args[1], args[2])) =>
        /\ ~Raised(out2[1])
        /\ Val(out2[1]).is_valid = FALSE
        /\ Val(out2[1]).errors = <<CheckDigitError>>

\* The same for the codes over [0-9A-Z], unless the fold remainders of the
\* two bases are 0 and 1, the two remainders with the check digit '0'.
C28_DetectedUnlessRemapped ==
    (/\ pc = "substituted" /\ op = "validate_eic_format"
     /\ Val(out[1]).is_valid
     /\ AllIn(args[1], Range(Alnum36))
     /\ EICSubstitution(args[1], args[2])) =>
        /\ ~Raised(out2[1])
        /\ IF {RefEICRemainder(args[1], 15), RefEICRemainder(args[2], 15)} = {0, 1}
           THEN Val(out2[1]).is_valid
           ELSE /\ Val(out2[1]).is_valid = FALSE
                /\ Val(out2[1]).errors = <<CheckDigitError>>

\* A substitution in 27XGOEPS0000001H is reported.
C28_WitnessDetected ==
    /\ pc = "substituted" /\ op = "validate_eic_format"
    /\ args[1] = T_EIC16
    /\ EICSubstitution(args[1], args[2])
    /\ Val(out2[1]).errors = <<CheckDigitError>>

\* 0000000000000000 with its 15th character replaced by '1' is reported
\* valid.
C28_WitnessUndetected ==
    /\ pc = "substituted" /\ op = "validate_eic_format"
    /\ args[1] = T_EIC16ZERO
    /\ args[2] = T_EIC15ONE \o <<"0">>
    /\ Val(out[1]).is_valid
    /\ Val(out2[1]).is_valid

\* ---- C29 ----
\* x is y with exactly one character replaced by a different digit 0-9.
EANSubstitution(y, x) ==
    /\ Len(x) = Len(y)
    /\ Cardinality({i \in DOMAIN y : x[i] # y[i]}) = 1
    /\ \A i \in DOMAIN y : x[i] # y[i] => x[i] \in AsciiDigit

\* C29: a code of 8, 13 or 14 characters reported valid by validate_ean,
\* with one digit at any position replaced by a different digit, is
\* reported invalid with 'Invalid check digit'.
C29_SingleDigitDetected ==
    (/\ pc = "substituted" /\ op = "validate_ean"
     /\ Val(out[1])[1] = TRUE
     /\ Len(args[1]) \in {8, 13, 14}
     /\ EANSubstitution(args[1], args[2])) =>
        out2[1] = Return(<<FALSE, None, Some(CheckDigitError)>>)

\* The same for the codes of digits 0-9.
C29_OnAsciiInput ==
    (/\ pc = "substituted" /\ op = "validate_ean"
     /\ Val(out[1])[1] = TRUE
     /\ Len(args[1]) \in {8, 13, 14}
     /\ AllIn(args[1], AsciiDigit)
     /\ EANSubstitution(args[1], args[2])) =>
        out2[1] = Return(<<FALSE, None, Some(CheckDigitError)>>)

\* A digit of 4006381333931 replaced, in the data part and at the check
\* digit: both are reported.
C29_WitnessDataPart ==
    /\ pc = "substituted" /\ op = "validate_ean"
    /\ args[1] = T_EAN13
    /\ EANSubstitution(args[1], args[2])
    /\ args[2][13] = args[1][13]
    /\ out2[1] = Return(<<FALSE, None, Some(CheckDigitError)>>)

C29_WitnessCheckDigit ==
    /\ pc = "substituted" /\ op = "validate_ean"
    /\ args[1] = T_EAN13
    /\ EANSubstitution(args[1], args[2])
    /\ args[2][13] # args[1][13]
    /\ out2[1] = Return(<<FALSE, None, Some(CheckDigitError)>>)

\* The Arabic-Indic three of a valid code replaced by '3': reported valid.
C29_WitnessUndetected ==
    /\ pc = "substituted" /\ op = "validate_ean"
    /\ Val(out[1])[1] = TRUE
    /\ \E i \in DOMAIN args[1] : args[1][i] = "AR3" /\ args[2][i] = "3"
    /\ EANSubstitution(args[1], args[2])
    /\ Val(out2[1])[1] = TRUE

\* ---- C30 ----
\* The error lists validate_eic_format can return: empty, or one of the
\* length, character-set and check-digit errors.
EICErrorLists ==
    {<<>>, <<EICCharsetError>>, <<CheckDigitError>>}
        \cup {<<EICLengthError(n)>> : n \in 0..(2 * (Len(T_EIC21) + MaxWindow))}

\* The per-field messages and the parse failure.
IsFieldError(m) ==
    \/ m = Msg("Failed to parse EIC components")
    \/ /\ Len(m) = 2
       /\ m[1] \in {"Invalid office identifier format:",
                    "Invalid entity type format:",
                    "Invalid individual identifier format:"}

\* What C30 says of one result of validate_eic_format.
EICDiagnosticsOf(r) ==
    /\ ~Raised(r)
    /\ \A i \in DOMAIN Val(r).errors : ~IsFieldError(Val(r).errors[i])
    /\ Val(r).errors \in EICErrorLists
    /\ Len(Val(r).errors) <= 1
    /\ ~Val(r).is_valid => Len(Val(r).errors) = 1

\* C30: on every input validate_eic_format records neither 'Failed to parse
\* EIC components' nor one of the office-identifier, entity-type and
\* individual-identifier format errors; its error list has at most one
\* entry, the length, the character-set or the check-digit error, and
\* exactly one when the code is invalid.
C30_FieldDiagnosticsUnreachable ==
    /\ Returned("validate_eic_format") => EICDiagnosticsOf(out[1])
    /\ (pc \in {"checked", "substituted"} /\ op = "validate_eic_format") =>
           EICDiagnosticsOf(out2[1])

\* A 16-character code with a character outside [0-9A-Z] in its individual
\* identifier: the character-set error alone.
C30_Witness ==
    /\ Returned("validate_eic_format")
    /\ Len(args[1]) = 16
    /\ \E i \in 4..15 : args[1][i] = "!"
    /\ Val(out[1]).errors = <<EICCharsetError>>

C30_WitnessCheckDigit ==
    /\ Returned("validate_eic_format")
    /\ Val(out[1]).errors = <<CheckDigitError>>

C30_WitnessLength ==
    /\ Returned("validate_eic_format")
    /\ \E n \in {15, 17} : Val(out[1]).errors = <<EICLengthError(n)>>

====
